---- MODULE Spec2Model ----
(***************************************************************************)
(* A model of the device-control and agent-session core of android_world:  *)
(*   - MidsceneAgent (src/android_world/agents/midscene.py): the session   *)
(*     client (_send_rpc_request) and the agent driver (start_new_task,    *)
(*     step, update_task_status, reset);                                    *)
(*   - android_world_controller.py: _has_wrapper, get_a11y_tree and        *)
(*     AndroidWorldController (get_a11y_forest, refresh_env).              *)
(* The remote engine, the HTTP transport and the device are the            *)
(* environment: their answers are inputs drawn from small sets.            *)
(***************************************************************************)
EXTENDS Integers, Sequences, FiniteSets, TLC

VARIABLES
  \* ---- MidsceneAgent fields (midscene.py:23-28, 37) ----
  step_count,           \* self.step_count
  current_task_name,    \* self.current_task_name (Unset until start_new_task)
  failed_step_reason,   \* self.failed_step_reason
  task_status,          \* self.task_status: dict session id -> status
  run_log,              \* self.run_log: list of step responses
  interaction_cache,    \* self.env.interaction_cache
  last,                 \* what the most recent driver operation did
  session_created,      \* history: the new-agent request of the current
                        \* session identifier was answered
  env_rpc_url,          \* os.environ.get("MIDSCENE_BENCH_RPC_URL")
  rpc_url,              \* self.rpc_url
  \* ---- one _send_rpc_request call on its own ----
  tx_script,            \* what the transport does at attempts 1..3
  tx_now,               \* the reading of time.time() for the call
  tx_result,            \* the call's outcome (NotCalled before the call)
  tx_log,               \* history: the calls one client has made, in order
  \* ---- one _has_wrapper call on its own ----
  hw_env,               \* the wrapper chain inspected
  hw_result,            \* the call's outcome
  \* ---- one get_a11y_tree call on its own ----
  gt_env,               \* the wrapper chain of the handle
  gt_max_retries,       \* max_retries
  gt_device,            \* what the device answers during the call
  gt_result,            \* the call's outcome
  \* ---- AndroidWorldController ----
  ctl_env,              \* self._env: the owned handle
  ctl_a11y_method,      \* self._a11y_method
  ctl_made,             \* how many handles have been constructed so far
  ctl_call,             \* the get_a11y_forest call in progress / just ended
  ctl_original_env,     \* self._original_env
  ctl_open,             \* history: the environments loaded so far on which
                        \* close() has not been called
  ctl_ui,               \* the get_ui_elements call in progress / just ended
  \* ---- several callers of one AndroidWorldController ----
  callers               \* per caller: where it is in get_a11y_forest and
                        \* which handles it has used

agentVars == <<step_count, current_task_name, failed_step_reason, task_status,
               run_log, interaction_cache, last, session_created,
               env_rpc_url, rpc_url>>
urlVars   == <<env_rpc_url, rpc_url>>
txVars    == <<tx_script, tx_now, tx_result, tx_log>>
hwVars    == <<hw_env, hw_result>>
gtVars    == <<gt_env, gt_max_retries, gt_device, gt_result>>
ctlVars   == <<ctl_env, ctl_a11y_method, ctl_made, ctl_call, ctl_original_env,
               ctl_open, ctl_ui>>
vars      == <<agentVars, txVars, hwVars, gtVars, ctlVars, callers>>

(***************************************************************************)
(* Bounds of the model.                                                    *)
(***************************************************************************)
MaxSteps   == 2     \* step calls modelled per driver (run_log never shrinks)
MaxChain   == 3     \* longest wrapper chain modelled
MaxRetriesBound == 3    \* largest max_retries passed to get_a11y_tree on its own
MaxHandles == 3     \* handles constructed per controller
NumCallers == 2     \* threads calling one controller
MaxSends   == 3     \* _send_rpc_request calls modelled per client

(***************************************************************************)
(* Program constants.                                                      *)
(***************************************************************************)
MaxAttempts == 3    \* while request_cnt < 3
DefaultMaxRetries == 5  \* get_a11y_tree(max_retries=5)
HttpOk == 200
HttpServerError == 500
HttpErrorFrom == 400    \* raise_for_status: 4xx and 5xx raise

(***************************************************************************)
(* The transport and the remote engine.                                    *)
(***************************************************************************)
NotCalled == [outcome |-> "not called"]

\* response data: a dict with a reason, a dict without one
DataReason == [reason |-> "not found"]
DataOther == [x |-> "1"]

\* {result: {code}} and {result: {code, data}}: code 1 is success, any other
\* code is not; data may hold a reason, hold none, or be absent
Bodies ==
  { [result |-> [code |-> 1, data |-> DataOther]],
    [result |-> [code |-> 1]],
    [result |-> [code |-> 0, data |-> DataReason]],
    [result |-> [code |-> 0, data |-> DataOther]],
    [result |-> [code |-> 0]],
    [result |-> [code |-> 2, data |-> DataReason]] }

\* requests.post raises: no response
Undelivered == { [kind |-> "exception", cause |-> "ConnectionError"] }

\* requests.post returns: delivered, with a status and perhaps a JSON body
Delivered ==
  { [kind |-> "response", status |-> HttpOk, json |-> b] : b \in Bodies }
    \cup { [kind |-> "response", status |-> HttpOk],          \* body is no JSON
           [kind |-> "response", status |-> HttpServerError] }

Outcomes == Undelivered \cup Delivered

NoResponse == [kind |-> "none"]

(***************************************************************************)
(* Session client: MidsceneAgent._send_rpc_request (midscene.py:101-130).  *)
(***************************************************************************)

\* The retry loop with a `continue` in place of the `break`: it keeps posting
\* after a delivery.
SendLoopNoBreak(script, cnt, response, console) ==
  LET F[n \in 0..MaxAttempts] ==
        IF n = 0
        THEN [request_cnt |-> 0, response |-> NoResponse, console |-> <<>>]
        ELSE IF script[n].kind = "response"
             THEN [request_cnt |-> n, response |-> script[n],
                   console |-> F[n - 1].console]
             ELSE [request_cnt |-> n, response |-> F[n - 1].response,
                   console |-> Append(F[n - 1].console,
                                 [msg |-> "RPC Request Failed",
                                  cause |-> script[n].cause, retry |-> n])]
  IN F[MaxAttempts]

\* the send loop with one more attempt, while request_cnt <= 3: the fourth
\* post meets the transport of the first
SendLoopOneMore(script, cnt, response, console) ==
  LET H[n \in 0..(MaxAttempts + 1)] ==
        IF n = 0
        THEN [request_cnt |-> cnt, response |-> response, console |-> console,
              done |-> FALSE]
        ELSE IF H[n - 1].done
             THEN H[n - 1]
             ELSE LET o == script[((n - 1) % MaxAttempts) + 1]
                  IN IF o.kind = "response"
                     THEN [request_cnt |-> n, response |-> o,
                           console |-> H[n - 1].console, done |-> TRUE]
                     ELSE [request_cnt |-> n, response |-> H[n - 1].response,
                           console |-> Append(H[n - 1].console,
                                         [msg |-> "RPC Request Failed",
                                          cause |-> o.cause, retry |-> n]),
                           done |-> FALSE]
      h == H[MaxAttempts + 1]
  IN [request_cnt |-> h.request_cnt, response |-> h.response,
      console |-> h.console]

\* while request_cnt < 3: request_cnt += 1; try: response = post(...); break
\*                        except Exception as e: console("RPC Request Failed ... Retry: n")
RECURSIVE SendLoop(_, _, _, _)
SendLoop(script, cnt, response, console) ==
  IF cnt < MaxAttempts
  THEN LET request_cnt == cnt + 1
           o == script[request_cnt]
       IN IF o.kind = "response"
          THEN [request_cnt |-> request_cnt, response |-> o, console |-> console]
          ELSE SendLoop(script, request_cnt, response,
                        Append(console, [msg |-> "RPC Request Failed",
                                         cause |-> o.cause, retry |-> request_cnt]))
  ELSE [request_cnt |-> cnt, response |-> response, console |-> console]

\* response.raise_for_status() with the test dropped: an error status is read
\* like any other response
RaisesForStatusNever(response) == FALSE

\* response.raise_for_status(): raises HTTPError on a 4xx or 5xx status
RaisesForStatus(response) == response.status >= HttpErrorFrom

\* The envelope of one call: the same payload object is posted at every attempt.
Payload(method, params, now) ==
  [jsonrpc |-> "2.0", method |-> method, params |-> params, id |-> now]

\* _send_rpc_request(method, params), with time.time() = now and the transport
\* answering attempt n with script[n].
\*   outcome "return":          result is the decoded body
\*   outcome "RuntimeError":    no attempt was delivered
\*   outcome "HTTPError":       raise_for_status raised
\*   outcome "JSONDecodeError": response.json() raised
\* console lists the lines _formatted_console printed, posts the payloads posted.
_send_rpc_request(method, params, now, script) ==
  LET payload == Payload(method, params, now)
      loop == SendLoop(script, 0, NoResponse, <<>>)
      base == [request_cnt |-> loop.request_cnt,
               posts |-> [i \in 1..loop.request_cnt |-> payload],
               response |-> loop.response]
  IN IF loop.response.kind = "none"
     THEN base @@ [outcome |-> "RuntimeError",
                   console |-> Append(loop.console,
                                      [msg |-> "Failed to send RPC request"])]
     ELSE IF RaisesForStatus(loop.response)
     THEN base @@ [outcome |-> "HTTPError", console |-> loop.console]
     ELSE IF "json" \notin DOMAIN loop.response
     THEN base @@ [outcome |-> "JSONDecodeError", console |-> loop.console]
     ELSE base @@ [outcome |-> "return", result |-> loop.response.json,
                   console |-> Append(loop.console,
                                      [msg |-> "RPC Response",
                                       result |-> loop.response.json])]

\* the number of "RPC Request Failed" lines a call printed
FailuresLogged(console) ==
  Cardinality({ i \in DOMAIN console : console[i].msg = "RPC Request Failed" })

\* the attempts of a script that the transport would fail, among the first n
FailedAmong(script, n) ==
  Cardinality({ i \in 1..n : script[i].kind = "exception" })


(***************************************************************************)
(* Agent driver: MidsceneAgent (midscene.py:14-93).                        *)
(***************************************************************************)
Unset == "<unset>"            \* the attribute current_task_name does not exist yet
TaskNames == {"T1", "T2"}
TaskIds == {"0"}
Goals == {"open app"}
DeviceTypes == {"Local", "Remote"}     \* MIDSCENE_DEVICE_TYPE
NoArg == "<default>"          \* update_task_status() called without a status
StatusArgs == {NoArg, "Succeeded"}

\* os.environ.get(name) of a variable that is not set
None == "<None>"
\* the request URL of the engine when it is configured
ConfiguredUrl == "http://localhost:3000"
\* what MIDSCENE_BENCH_RPC_URL can hold: unset, empty, a URL
EnvUrls == {None, "", ConfiguredUrl}

\* The test of _init_json_rpc as `self.rpc_url is None`: an empty URL passes
UrlMissingNoneOnly(url) == url = None

\* not self.rpc_url
UrlMissing(url) == url = None \/ url = ""

\* no MidsceneAgent has been constructed yet
NotConstructed == [op |-> "none", rpc |-> NotCalled, outcome |-> "none"]

\* a MidsceneAgent object exists: its __init__ has returned
DriverExists ==
  /\ last # NotConstructed
  /\ ~(last.op = "__init__" /\ last.outcome # "return")

\* MidsceneAgent.__init__(env): run_log is set, then _init_json_rpc reads the
\* URL and raises RuntimeError when it is missing; step_count, task_status
\* and failed_step_reason are set only after it
__init__ ==
  /\ run_log' = <<>>
  /\ rpc_url' = env_rpc_url
  /\ IF UrlMissing(env_rpc_url)
     THEN /\ last' = [op |-> "__init__", rpc |-> NotCalled,
                      outcome |-> "RuntimeError"]
          /\ UNCHANGED <<step_count, task_status, failed_step_reason>>
     ELSE /\ step_count' = 0
          /\ task_status' = <<>>
          /\ failed_step_reason' = ""
          /\ last' = [op |-> "__init__", rpc |-> NotCalled, outcome |-> "return"]
  /\ UNCHANGED <<current_task_name, interaction_cache, session_created,
                 env_rpc_url>>

\* str(result.get('data', '')): the repr of the dict, '' when there is no data
PyStr(result) ==
  IF "data" \notin DOMAIN result THEN ""
  ELSE IF "reason" \in DOMAIN result.data
       THEN "{'reason': '" \o result.data.reason \o "'}"
       ELSE "{'x': '" \o result.data.x \o "'}"

\* dict.get(key, default)
DictGet(d, key, default) == IF key \in DOMAIN d THEN d[key] ELSE default

\* d.setdefault(key, value): the value of a key the dict holds is kept
DictSetKeepFirst(d, key, value) ==
  IF key \in DOMAIN d
  THEN d
  ELSE [k \in DOMAIN d \cup {key} |-> IF k = key THEN value ELSE d[k]]

\* dict[key] = value
DictSet(d, key, value) ==
  [k \in DOMAIN d \cup {key} |-> IF k = key THEN value ELSE d[k]]

\* "Task-" + task_id + "-" + str(task_name)
SessionId(task_name, task_id) == "Task-" \o task_id \o "-" \o task_name

\* The device descriptor with the two branches exchanged
DeviceSwapped(device_type) ==
  IF device_type = "Local"
  THEN [type |-> "Android", host |-> "localhost", port |-> "5555"]
  ELSE [type |-> "Android", deviceId |-> "emulator-5554"]

\* the device descriptor of start_new_task (midscene.py:39-45)
Device(device_type) ==
  IF device_type = "Local"
  THEN [type |-> "Android", deviceId |-> "emulator-5554"]
  ELSE [type |-> "Android", host |-> "localhost", port |-> "5555"]

\* a script of the transport: k failed attempts, then o at every later attempt
Script(k, o) ==
  [i \in 1..MaxAttempts |-> IF i <= k THEN CHOOSE u \in Undelivered : TRUE ELSE o]

\* the answer of the engine to a request whose result the driver does not read
Ack == [kind |-> "response", status |-> HttpOk, json |-> [result |-> [code |-> 1]]]

\* the transport under a step: every answer at the first attempt (every
\* attempt failing included), and one answer after two failed attempts
StepScripts ==
  { Script(0, o) : o \in Outcomes } \cup { Script(MaxAttempts - 1, Ack) }

\* the transport under a new-agent or terminate-agent request
AckScripts ==
  { Script(0, Ack),
    Script(0, [kind |-> "response", status |-> HttpServerError]),
    Script(MaxAttempts, Ack) }

\* start_new_task(task_name, task_id)
start_new_task(task_name, task_id, device_type, script) ==
  LET name == SessionId(task_name, task_id)
      rpc == _send_rpc_request("new-agent",
               [type |-> "Android", device |-> Device(device_type), id |-> name],
               0, script)
  IN /\ current_task_name' = name
     /\ step_count' = IF rpc.outcome = "return" THEN 0 ELSE step_count
     /\ last' = [op |-> "start_new_task", rpc |-> rpc,
                 outcome |-> rpc.outcome,
                 args |-> [task_name |-> task_name, task_id |-> task_id,
                           device_type |-> device_type,
                           step_count |-> step_count]]
     /\ session_created' = (rpc.outcome = "return")
     /\ UNCHANGED <<failed_step_reason, task_status, run_log, interaction_cache>>

\* midscene_res['result']['data'].get('reason', ''): KeyError when the result
\* holds no data
StepReason(result) ==
  IF "data" \in DOMAIN result
  THEN [raised |-> FALSE, reason |-> DictGet(result.data, "reason", "")]
  ELSE [raised |-> TRUE, reason |-> ""]

\* The success test of step reading any code but 0 as success
IsSuccessCodeNonZero(code) == code # 0

\* midscene_res['result']['code'] == 1
IsSuccessCode(code) == code = 1

\* step without the statement of line 70: a successful step leaves the
\* last failure reason as it was
StepSentKeepsReason(goal, script) ==
  LET rpc == _send_rpc_request("run-ai-method",
               [id |-> current_task_name, task |-> goal], 0, script)
  IN /\ step_count' = step_count + 1
     /\ UNCHANGED <<current_task_name, task_status, session_created>>
     /\ IF rpc.outcome # "return"
        THEN /\ last' = [op |-> "step", rpc |-> rpc, outcome |-> rpc.outcome]
             /\ UNCHANGED <<run_log, failed_step_reason, interaction_cache>>
        ELSE LET midscene_res == rpc.result
                 result == midscene_res.result
             IN /\ run_log' = Append(run_log, midscene_res)
                /\ IF IsSuccessCode(result.code)
                   THEN LET action_raw_res == DictGet(result, "data", "")
                        IN /\ UNCHANGED failed_step_reason
                           /\ interaction_cache' = PyStr(result)
                           /\ last' = [op |-> "step", rpc |-> rpc,
                                       outcome |-> "return",
                                       ret |-> [done |-> TRUE,
                                                data |-> [midscene_action_response
                                                            |-> action_raw_res]]]
                   ELSE LET r == StepReason(result)
                        IN /\ failed_step_reason' = r.reason
                           /\ UNCHANGED interaction_cache
                           /\ last' = IF r.raised
                                      THEN [op |-> "step", rpc |-> rpc,
                                            outcome |-> "KeyError"]
                                      ELSE [op |-> "step", rpc |-> rpc,
                                            outcome |-> "return",
                                            ret |-> [done |-> FALSE, data |-> <<>>]]

\* step(goal) once the session identifier exists
StepSent(goal, script) ==
  LET rpc == _send_rpc_request("run-ai-method",
               [id |-> current_task_name, task |-> goal], 0, script)
  IN /\ step_count' = step_count + 1
     /\ UNCHANGED <<current_task_name, task_status, session_created>>
     /\ IF rpc.outcome # "return"
        THEN /\ last' = [op |-> "step", rpc |-> rpc, outcome |-> rpc.outcome]
             /\ UNCHANGED <<run_log, failed_step_reason, interaction_cache>>
        ELSE LET midscene_res == rpc.result
                 result == midscene_res.result
             IN /\ run_log' = Append(run_log, midscene_res)
                /\ IF IsSuccessCode(result.code)
                   THEN LET action_raw_res == DictGet(result, "data", "")
                        IN /\ failed_step_reason' = ""
                           /\ interaction_cache' = PyStr(result)
                           /\ last' = [op |-> "step", rpc |-> rpc,
                                       outcome |-> "return",
                                       ret |-> [done |-> TRUE,
                                                data |-> [midscene_action_response
                                                            |-> action_raw_res]]]
                   ELSE LET r == StepReason(result)
                        IN /\ failed_step_reason' = r.reason
                           /\ UNCHANGED interaction_cache
                           /\ last' = IF r.raised
                                      THEN [op |-> "step", rpc |-> rpc,
                                            outcome |-> "KeyError"]
                                      ELSE [op |-> "step", rpc |-> rpc,
                                            outcome |-> "return",
                                            ret |-> [done |-> FALSE, data |-> <<>>]]

\* step(goal) before any start_new_task: the counter is incremented, then
\* reading self.current_task_name raises AttributeError
StepUnset ==
  /\ step_count' = step_count + 1
  /\ last' = [op |-> "step", rpc |-> NotCalled, outcome |-> "AttributeError"]
  /\ UNCHANGED <<current_task_name, task_status, run_log, failed_step_reason,
                 interaction_cache, session_created>>

\* step(goal)
step(goal, script) ==
  /\ step_count < MaxSteps
  /\ Len(run_log) < MaxSteps
  /\ IF current_task_name = Unset THEN StepUnset ELSE StepSent(goal, script)

\* the default of update_task_status(status='Failed')
StatusOf(arg) == IF arg = NoArg THEN "Failed" ELSE arg

\* update_task_status sending the stored status of the previous call
TerminateParamsStale(status) ==
  [id |-> current_task_name,
   userTaskStatus |-> DictGet(task_status, current_task_name, "Failed"),
   agentStepError |-> failed_step_reason]

\* the params of the terminate-agent request (midscene.py:93), read after
\* task_status[current_task_name] = status
TerminateParams(status) ==
  [id |-> current_task_name,
   userTaskStatus |-> DictGet(DictSet(task_status, current_task_name, status),
                              current_task_name, "Failed"),
   agentStepError |-> failed_step_reason]

\* update_task_status(status)
update_task_status(arg, script) ==
  IF current_task_name = Unset
  THEN /\ last' = [op |-> "update_task_status", rpc |-> NotCalled,
                   outcome |-> "AttributeError", arg |-> arg]
       /\ UNCHANGED <<step_count, current_task_name, failed_step_reason,
                      task_status, run_log, interaction_cache, session_created>>
  ELSE LET status == StatusOf(arg)
           rpc == _send_rpc_request("terminate-agent", TerminateParams(status),
                                    0, script)
       IN /\ task_status' = DictSet(task_status, current_task_name, status)
          /\ last' = [op |-> "update_task_status", rpc |-> rpc,
                      outcome |-> rpc.outcome, arg |-> arg]
          /\ UNCHANGED <<step_count, current_task_name, failed_step_reason,
                         run_log, interaction_cache, session_created>>

\* super().reset(go_home), line 31 of reset: the reset of
\* EnvironmentInteractingAgent, which resets the environment the agent holds.
\* Neither the base class nor the environment is part of the sources, so the
\* call is taken with every outcome it can have on the state kept here: it
\* returns or it raises, and in either case the environment's
\* interaction_cache is left as it was or has been emptied by then.
BaseReset ==
  { [outcome |-> o, clears |-> c] : o \in {"return", "Exception"},
                                    c \in BOOLEAN }

\* reset(go_home) keeping the step counter
ResetKeepsCount ==
  \E base \in BaseReset :
    /\ interaction_cache' = IF base.clears THEN "" ELSE interaction_cache
    /\ step_count' = step_count
    /\ last' = [op |-> "reset", rpc |-> NotCalled, outcome |-> base.outcome]
    /\ UNCHANGED <<current_task_name, failed_step_reason, task_status,
                   run_log, session_created>>

\* reset(go_home): super().reset(go_home); self.step_count = 0.  An exception
\* of super().reset leaves reset at line 31, before the counter is written.
reset ==
  \E base \in BaseReset :
    /\ interaction_cache' = IF base.clears THEN "" ELSE interaction_cache
    /\ step_count' = IF base.outcome = "return" THEN 0 ELSE step_count
    /\ last' = [op |-> "reset", rpc |-> NotCalled, outcome |-> base.outcome]
    /\ UNCHANGED <<current_task_name, failed_step_reason, task_status,
                   run_log, session_created>>


(***************************************************************************)
(* Capability locator: _has_wrapper (android_world_controller.py:38-56).   *)
(* A handle is the chain of its links, outermost first: link i wraps link  *)
(* i+1 through its _env attribute, and the last link has no _env.          *)
(***************************************************************************)
Classes == {"A11yGrpcWrapper", "BaseWrapper", "AndroidEnv"}
Targets == {"A11yGrpcWrapper", "BaseWrapper"}

\* isinstance(link, target): A11yGrpcWrapper is a subclass of BaseWrapper
IsInstance(cls, target) ==
  \/ cls = target
  \/ cls = "A11yGrpcWrapper" /\ target = "BaseWrapper"

\* hasattr(env, '_env')
HasWrapped(env) == Len(env) > 1

\* _has_wrapper looking at the handle itself only, without the recursion
HasWrapperShallow(env, target_wrapper) ==
  [found |-> IsInstance(env[1], target_wrapper), inspections |-> 1]

\* _has_wrapper(env, target_wrapper): found is the value returned, inspections
\* the number of links the isinstance test was applied to
RECURSIVE _has_wrapper(_, _)
_has_wrapper(env, target_wrapper) ==
  IF IsInstance(env[1], target_wrapper)
  THEN [found |-> TRUE, inspections |-> 1]
  ELSE IF HasWrapped(env)
       THEN LET r == _has_wrapper(Tail(env), target_wrapper)
            IN [found |-> r.found, inspections |-> r.inspections + 1]
       ELSE [found |-> FALSE, inspections |-> 1]

\* every wrapper chain of at most MaxChain links
Chains == UNION { [1..n -> Classes] : n \in 1..MaxChain }

(***************************************************************************)
(* Snapshot fetcher: get_a11y_tree (android_world_controller.py:59-104).   *)
(* device.airplane is the answer to check_airplane_mode, device.pulls[i]   *)
(* what the i-th accumulate_new_extras() does.                             *)
(***************************************************************************)
\* an extras dict without the category, with an empty buffer, with forests
NoCategory == [kind |-> "extras", extras |-> [other |-> <<>>]]
HasCategory(forests) ==
  [kind |-> "extras", extras |-> [accessibility_tree |-> forests]]
PullRaises == [kind |-> "raise", error |-> "RpcError"]

\* the forest number seq buffered by handle h
Forest(h, seq) == [from |-> h, seq |-> seq]

\* what one pull on handle h can do
PullOutcomes(h) ==
  { NoCategory, PullRaises, HasCategory(<<>>),
    HasCategory(<<Forest(h, 1)>>), HasCategory(<<Forest(h, 1), Forest(h, 2)>>) }

\* The polling loop of range(max_retries - 1): one pull short
PullLoopOneShort(device, attempt, max_retries, sleeps) ==
  LET Missing(i) == /\ device.pulls[i].kind = "extras"
                    /\ "accessibility_tree" \notin DOMAIN device.pulls[i].extras
      stop == { i \in attempt..(max_retries - 1) : ~Missing(i) }
  IN IF stop = {}
     THEN [outcome |-> "exhausted",
           pulls |-> IF max_retries > 0 THEN max_retries - 1 ELSE 0,
           sleeps |-> sleeps + (IF max_retries > 0 THEN max_retries - 1 ELSE 0)]
     ELSE LET i == CHOOSE j \in stop : \A k \in stop : j <= k
              o == device.pulls[i]
          IN IF o.kind = "raise"
             THEN [outcome |-> o.error, pulls |-> i, sleeps |-> sleeps + (i - 1)]
             ELSE IF o.extras.accessibility_tree = <<>>
             THEN [outcome |-> "IndexError", pulls |-> i, sleeps |-> sleeps + (i - 1)]
             ELSE [outcome |-> "return", pulls |-> i, sleeps |-> sleeps + (i - 1),
                   forest |-> o.extras.accessibility_tree[
                                Len(o.extras.accessibility_tree)]]

\* the polling loop with `except Exception`: every failure of a pull is
\* retried
RECURSIVE PullLoopRetryAll(_, _, _, _)
PullLoopRetryAll(device, attempt, max_retries, sleeps) ==
  IF attempt > max_retries
  THEN [outcome |-> "exhausted", pulls |-> max_retries, sleeps |-> sleeps]
  ELSE LET o == device.pulls[attempt]
       IN IF \/ o.kind = "raise"
             \/ "accessibility_tree" \notin DOMAIN o.extras
             \/ o.extras.accessibility_tree = <<>>
          THEN PullLoopRetryAll(device, attempt + 1, max_retries, sleeps + 1)
          ELSE [outcome |-> "return", pulls |-> attempt, sleeps |-> sleeps,
                forest |-> o.extras.accessibility_tree[
                             Len(o.extras.accessibility_tree)]]

\* for _ in range(max_retries): try: return extras['accessibility_tree'][-1]
\*                              except KeyError: warn
\*                              time.sleep(sleep_duration)
\* attempt is the number of the pull about to be made, sleeps the sleeps so far
RECURSIVE PullLoop(_, _, _, _)
PullLoop(device, attempt, max_retries, sleeps) ==
  IF attempt > max_retries
  THEN [outcome |-> "exhausted", pulls |-> max_retries, sleeps |-> sleeps]
  ELSE LET o == device.pulls[attempt]
       IN IF o.kind = "raise"
          THEN [outcome |-> o.error, pulls |-> attempt, sleeps |-> sleeps]
          ELSE IF "accessibility_tree" \notin DOMAIN o.extras
          THEN PullLoop(device, attempt + 1, max_retries, sleeps + 1)
          ELSE IF o.extras.accessibility_tree = <<>>
          THEN [outcome |-> "IndexError", pulls |-> attempt, sleeps |-> sleeps]
          ELSE [outcome |-> "return", pulls |-> attempt, sleeps |-> sleeps,
                forest |-> o.extras.accessibility_tree[
                             Len(o.extras.accessibility_tree)]]

\* get_a11y_tree from line 81 on: the airplane-mode check and its remediation
\* (enable networking, sleep 1.0), then the polling loop
FetchWrapped(located, max_retries, device) ==
  LET remedied == IF device.airplane THEN 1 ELSE 0
      loop == PullLoop(device, 1, max_retries, remedied)
      base == [inspections |-> located.inspections,
               airplane_checks |-> 1,
               enable_networking |-> remedied,
               sleeps |-> loop.sleeps,
               pulls |-> loop.pulls]
  IN IF loop.outcome = "return"
     THEN base @@ [outcome |-> "return", forest |-> loop.forest]
     ELSE IF loop.outcome = "exhausted"
     THEN base @@ [outcome |-> "RuntimeError"]     \* forest is None
     ELSE base @@ [outcome |-> loop.outcome]

\* get_a11y_tree with the wrapper test moved behind the airplane-mode
\* remediation
GetA11yTreeCheckLate(env, max_retries, device) ==
  LET located == _has_wrapper(env, "A11yGrpcWrapper")
      remedied == IF device.airplane THEN 1 ELSE 0
  IN IF ~located.found
     THEN [outcome |-> "ValueError", inspections |-> located.inspections,
           airplane_checks |-> 1, enable_networking |-> remedied,
           sleeps |-> remedied, pulls |-> 0]
     ELSE FetchWrapped(located, max_retries, device)

\* get_a11y_tree(env, max_retries, sleep_duration)
\*   outcome "return":       forest is the snapshot returned
\*   outcome "ValueError":   the capability wrapper is not in the chain
\*   outcome "RuntimeError": no snapshot after max_retries pulls
\*   any other outcome:      the exception a pull raised
\* with the numbers of links inspected, airplane-mode checks, enable-networking
\* commands, sleeps and pulls the call made.
get_a11y_tree(env, max_retries, device) ==
  LET located == _has_wrapper(env, "A11yGrpcWrapper")
  IN IF ~located.found
     THEN [outcome |-> "ValueError", inspections |-> located.inspections,
           airplane_checks |-> 0, enable_networking |-> 0, sleeps |-> 0,
           pulls |-> 0]
     ELSE FetchWrapped(located, max_retries, device)

\* k pulls that find no category, then o at every later pull
PullScript(k, o, n) == [i \in 1..n |-> IF i <= k THEN NoCategory ELSE o]

(***************************************************************************)
(* Initial states.                                                         *)
(***************************************************************************)
AgentInit ==
  /\ step_count = 0
  /\ current_task_name = Unset
  /\ failed_step_reason = ""
  /\ task_status = <<>>
  /\ run_log = <<>>
  /\ interaction_cache = ""
  /\ last = [op |-> "__init__", rpc |-> NotCalled, outcome |-> "return"]
  /\ session_created = FALSE
  /\ env_rpc_url = ConfiguredUrl
  /\ rpc_url = ConfiguredUrl

TxIdle ==
  /\ tx_script = [i \in 1..MaxAttempts |-> CHOOSE u \in Undelivered : TRUE]
  /\ tx_now = 0
  /\ tx_result = NotCalled
  /\ tx_log = <<>>

HwIdle == hw_env = <<>> /\ hw_result = NotCalled

GtIdle ==
  /\ gt_env = <<>>
  /\ gt_max_retries = 0
  /\ gt_device = <<>>
  /\ gt_result = NotCalled

CtlIdle ==
  /\ ctl_env = <<>>
  /\ ctl_a11y_method = "none"
  /\ ctl_made = 0
  /\ ctl_call = [pc |-> "idle"]
  /\ ctl_original_env = <<>>
  /\ ctl_open = {}
  /\ ctl_ui = [pc |-> "idle"]

CallersIdle == callers = <<>>

(***************************************************************************)
(* Spec: one agent driver and its caller.                                  *)
(***************************************************************************)
Init == AgentInit /\ TxIdle /\ HwIdle /\ GtIdle /\ CtlIdle /\ CallersIdle

Start ==
  /\ DriverExists
  /\ \E task_name \in TaskNames, task_id \in TaskIds,
        device_type \in DeviceTypes, script \in AckScripts :
       start_new_task(task_name, task_id, device_type, script)
  /\ UNCHANGED <<urlVars, txVars, hwVars, gtVars, ctlVars, callers>>

Step ==
  /\ DriverExists
  /\ \E goal \in Goals, script \in StepScripts : step(goal, script)
  /\ UNCHANGED <<urlVars, txVars, hwVars, gtVars, ctlVars, callers>>

Terminate ==
  /\ DriverExists
  /\ \E arg \in StatusArgs, script \in AckScripts :
       update_task_status(arg, script)
  /\ UNCHANGED <<urlVars, txVars, hwVars, gtVars, ctlVars, callers>>

Reset ==
  /\ DriverExists
  /\ reset
  /\ UNCHANGED <<urlVars, txVars, hwVars, gtVars, ctlVars, callers>>

Next == Start \/ Step \/ Terminate \/ Reset

Spec == Init /\ [][Next]_vars

(***************************************************************************)
(* SpecNew: the driver from before its construction, for every setting of  *)
(* MIDSCENE_BENCH_RPC_URL.                                                 *)
(***************************************************************************)
InitNew ==
  /\ env_rpc_url \in EnvUrls
  /\ rpc_url = Unset
  /\ step_count = Unset
  /\ task_status = Unset
  /\ failed_step_reason = Unset
  /\ run_log = Unset
  /\ current_task_name = Unset
  /\ interaction_cache = ""
  /\ session_created = FALSE
  /\ last = NotConstructed
  /\ TxIdle /\ HwIdle /\ GtIdle /\ CtlIdle /\ CallersIdle

Construct ==
  /\ last = NotConstructed
  /\ __init__
  /\ UNCHANGED <<txVars, hwVars, gtVars, ctlVars, callers>>

NextNew == Construct \/ Start \/ Step \/ Terminate \/ Reset

SpecNew == InitNew /\ [][NextNew]_vars

(***************************************************************************)
(* SpecSend: one _send_rpc_request call against every transport script.    *)
(***************************************************************************)
Methods == {"new-agent", "run-ai-method", "terminate-agent"}

InitSend ==
  /\ AgentInit /\ HwIdle /\ GtIdle /\ CtlIdle /\ CallersIdle
  /\ tx_script \in [1..MaxAttempts -> Outcomes]
  /\ tx_now = 0
  /\ tx_result = NotCalled
  /\ tx_log = <<>>

Send ==
  /\ tx_result = NotCalled
  /\ \E method \in Methods :
       tx_result' = _send_rpc_request(method, [id |-> "Task-0-T1"], tx_now,
                                      tx_script)
  /\ UNCHANGED <<tx_script, tx_now, tx_log, agentVars, hwVars, gtVars, ctlVars,
                 callers>>

NextSend == Send

SpecSend == InitSend /\ [][NextSend]_vars


(***************************************************************************)
(* SpecClock: MaxSends _send_rpc_request calls of one client, each reading *)
(* time.time() once.  The clock never goes back; two readings can be       *)
(* equal.  The engine answers with an envelope whose id is the id of the   *)
(* request or another one.                                                 *)
(***************************************************************************)
\* an answer of the engine carrying the correlation identifier id
Echo(id) ==
  [kind |-> "response", status |-> HttpOk,
   json |-> [id |-> id, result |-> [code |-> 1]]]

\* the transport under a call made at clock reading now: an answer with the
\* id of the request or with another id, at the first or at the last attempt
ClockScripts(now) ==
  { Script(k, Echo(id)) : k \in {0, MaxAttempts - 1}, id \in {now, now + 1} }

InitClock ==
  /\ AgentInit /\ TxIdle /\ HwIdle /\ GtIdle /\ CtlIdle /\ CallersIdle

\* one more _send_rpc_request call: time.time() is read once, when the
\* payload is built
SendAt ==
  /\ Len(tx_log) < MaxSends
  /\ \E now \in {tx_now, tx_now + 1} :
       \E script \in ClockScripts(now) :
         /\ tx_now' = now
         /\ tx_script' = script
         /\ tx_result' = _send_rpc_request("run-ai-method",
                                           [id |-> "Task-0-T1"], now, script)
         /\ tx_log' = Append(tx_log, tx_result')
  /\ UNCHANGED <<agentVars, hwVars, gtVars, ctlVars, callers>>

NextClock == SendAt

SpecClock == InitClock /\ [][NextClock]_vars

(***************************************************************************)
(* SpecLocate: one _has_wrapper call on every chain.                       *)
(***************************************************************************)
InitLocate ==
  /\ AgentInit /\ TxIdle /\ GtIdle /\ CtlIdle /\ CallersIdle
  /\ hw_env \in Chains
  /\ hw_result = NotCalled

Locate ==
  /\ hw_result = NotCalled
  /\ \E target_wrapper \in Targets :
       hw_result' = [target |-> target_wrapper]
                      @@ _has_wrapper(hw_env, target_wrapper)
  /\ UNCHANGED <<hw_env, agentVars, txVars, gtVars, ctlVars, callers>>

NextLocate == Locate

SpecLocate == InitLocate /\ [][NextLocate]_vars

(***************************************************************************)
(* SpecFetch: one get_a11y_tree call for every max_retries and every       *)
(* sequence of device answers.                                             *)
(***************************************************************************)
\* the handles a fetch is tried on: with the capability wrapper outermost,
\* below another wrapper, and absent
FetchChains ==
  { <<"A11yGrpcWrapper", "AndroidEnv">>,
    <<"BaseWrapper", "A11yGrpcWrapper", "AndroidEnv">>,
    <<"BaseWrapper", "AndroidEnv">>,
    <<"AndroidEnv">> }

InitFetch ==
  /\ AgentInit /\ TxIdle /\ HwIdle /\ CtlIdle /\ CallersIdle
  /\ gt_env \in FetchChains
  /\ gt_max_retries \in 0..MaxRetriesBound
  /\ \E airplane \in BOOLEAN :
       \E pulls \in [1..gt_max_retries -> PullOutcomes(1)] :
         gt_device = [airplane |-> airplane, pulls |-> pulls]
  /\ gt_result = NotCalled

Fetch ==
  /\ gt_result = NotCalled
  /\ gt_result' = get_a11y_tree(gt_env, gt_max_retries, gt_device)
  /\ UNCHANGED <<gt_env, gt_max_retries, gt_device, agentVars, txVars, hwVars,
                 ctlVars, callers>>

NextFetch == Fetch

SpecFetch == InitFetch /\ [][NextFetch]_vars


(***************************************************************************)
(* Device controller: AndroidWorldController                               *)
(* (android_world_controller.py:205-292) and get_controller (457-496).     *)
(* A handle is [id, chain]: id tells the environments loaded apart.        *)
(***************************************************************************)
A11yMethods == {"a11y_forwarder_app", "uiautomator", "none"}

\* the n-th environment loaded (loader.load / _load_android_env)
LoadedEnv(n) == [id |-> n, chain |-> <<"AndroidEnv">>]

\* AndroidWorldController.__init__: self._env for the n-th environment loaded
ControllerEnv(n, a11y_method) ==
  IF a11y_method = "a11y_forwarder_app"
  THEN [id |-> n, chain |-> <<"A11yGrpcWrapper", "AndroidEnv">>]
  ELSE [id |-> n, chain |-> <<"AndroidEnv">>]

\* refresh_env keeping the handle it has
RefreshedEnvKept(n) == ctl_env

\* refresh_env taking the environment of the new controller without its
\* wrapper
RefreshedEnvUnwrapped(n) == LoadedEnv(n)

\* refresh_env: get_controller(...).env, a controller built with the default
\* a11y_method around a newly loaded environment
RefreshedEnv(n) == ControllerEnv(n, "a11y_forwarder_app")

\* what `adb connect` can do: print "connected", print something else, raise
AdbConnectOutcomes == {"connected", "failed", "exception"}

\* _adb_connect_remote(adb_path, device_name): the value returned and the
\* lines logged; an exception is logged and answered with False
_adb_connect_remote(out) ==
  IF out = "exception"
  THEN [ret |-> FALSE,
        log |-> << [level |-> "info", msg |-> "Executing"],
                   [level |-> "error", msg |-> "Error connecting to remote device"] >>]
  ELSE IF out = "connected"
  THEN [ret |-> TRUE,
        log |-> << [level |-> "info", msg |-> "Executing"],
                   [level |-> "info", msg |-> "adb connect output"],
                   [level |-> "info",
                    msg |-> "Successfully connected to remote device"] >>]
  ELSE [ret |-> FALSE,
        log |-> << [level |-> "info", msg |-> "Executing"],
                   [level |-> "info", msg |-> "adb connect output"],
                   [level |-> "warning",
                    msg |-> "Failed to connect to remote device"] >>]

\* where a get_controller call can fail: nowhere, in the loader, or in
\* AndroidWorldController.__init__ at the adb call of
\* _is_a11y_forwarder_installed, at the construction of the A11yGrpcWrapper
\* or at self._env.reset()
Failures == {"none", "load", "installed_check", "wrapper", "reset"}

\* the environment of one get_controller call: the connection mode, what adb
\* connect does in remote mode, where the call fails, whether the forwarder
\* app is installed on the device, and what `adb reverse` does in remote mode
GetControllerInputs ==
  { h \in [is_remote : BOOLEAN, adb : AdbConnectOutcomes \cup {"none"},
           fails : Failures, installed : BOOLEAN,
           reverse : {"none", "ok", "raises"}] :
      /\ h.is_remote <=> h.adb # "none"
      /\ h.installed => h.fails \in {"none", "wrapper", "reset"}
      /\ h.reverse # "none" <=> (h.is_remote /\ h.fails \in {"none", "reset"}) }

\* the controller of the call gets built
Built(how) == how.fails = "none"

\* the loader of the call returns an environment
Loaded(how) == how.fails # "load"

\* _is_a11y_forwarder_installed(env): the value returned and the line logged
_is_a11y_forwarder_installed(how) ==
  IF how.installed
  THEN [ret |-> TRUE,
        log |-> << [level |-> "info",
                    msg |-> "Accessibility forwarder app is already installed."] >>]
  ELSE [ret |-> FALSE, log |-> <<>>]

\* apply_a11y_forwarder_app_wrapper(env, install_a11y_forwarding_app = True):
\* the lines logged and whether the wrapper is returned
apply_a11y_forwarder_app_wrapper(how) ==
  IF how.fails = "installed_check"
  THEN [outcome |-> "raise", log |-> <<>>]
  ELSE LET installed == _is_a11y_forwarder_installed(how)
           skip == IF installed.ret
                   THEN << [level |-> "info",
                            msg |-> "Skipping accessibility forwarder installation (already installed)."] >>
                   ELSE <<>>
           reverse == IF how.is_remote
                      THEN << [level |-> "info",
                               msg |-> "Remote mode: setting up adb reverse"] >>
                             \o (IF how.reverse = "raises"
                                 THEN << [level |-> "warning",
                                          msg |-> "Failed to set up adb reverse"] >>
                                 ELSE <<>>)
                      ELSE <<>>
       IN IF how.fails = "wrapper"
          THEN [outcome |-> "raise", log |-> installed.log \o skip]
          ELSE [outcome |-> "return", log |-> installed.log \o skip \o reverse]

\* AndroidWorldController(env) with the default a11y_method: the wrapper is
\* applied and reset
AndroidWorldController(how) ==
  LET applied == apply_a11y_forwarder_app_wrapper(how)
  IN IF applied.outcome = "return" /\ how.fails # "reset"
     THEN [outcome |-> "return", log |-> applied.log]
     ELSE [outcome |-> "raise", log |-> applied.log]

\* get_controller(console_port, adb_path, grpc_port) loading the n-th
\* environment: the value of _adb_connect_remote is dropped; an exception of
\* the loader leaves the call with no environment loaded, an exception of
\* AndroidWorldController.__init__ leaves it with the n-th environment loaded
\* and referred to by nothing
get_controller(n, how) ==
  LET connect == IF how.is_remote
                 THEN << [level |-> "info", msg |-> "Running in remote mode"] >>
                        \o _adb_connect_remote(how.adb).log
                 ELSE <<>>
      setting_up == Append(connect, [level |-> "info",
                                     msg |-> "Setting up AndroidWorldController."])
      controller == AndroidWorldController(how)
  IN IF ~Loaded(how)
     THEN [outcome |-> "ReconnectError", loaded |-> FALSE, log |-> connect]
     ELSE IF controller.outcome = "return"
     THEN [outcome |-> "return", loaded |-> TRUE, env |-> RefreshedEnv(n),
           log |-> setting_up \o controller.log]
     ELSE [outcome |-> "ReconnectError", loaded |-> TRUE,
           log |-> setting_up \o controller.log]

\* the device under one get_a11y_tree call of the controller: k pulls without
\* the category, then one answer
CtlDevices(h) ==
  { [airplane |-> a, pulls |-> PullScript(k, o, DefaultMaxRetries)] :
      a \in BOOLEAN, k \in {0, 1, DefaultMaxRetries},
      o \in PullOutcomes(h) \ {NoCategory} }

\* self._get_a11y_forest(): get_a11y_tree(self._env)
_get_a11y_forest(device) ==
  get_a11y_tree(ctl_env.chain, DefaultMaxRetries, device)

\* get_a11y_forest ends with what its last get_a11y_tree call r did: it
\* returns r's forest or raises r's exception
ForestEnds(call, r) ==
  [pc |-> "done", outcome |-> r.outcome]
    @@ (IF r.outcome = "return" THEN [ret |-> r.forest] ELSE <<>>)
    @@ call

\* get_a11y_forest going back to the reconnection when the fetch after a
\* reconnection fails as the first one did
ForestRetryEndsAgain(call, r) ==
  IF r.outcome = "RuntimeError"
  THEN [call EXCEPT !.pc = "refresh"]
  ELSE ForestEnds(call, r)

\* return self._get_a11y_forest() in the except branch: whatever the fetch
\* after the reconnection does ends the call
ForestRetryEnds(call, r) == ForestEnds(call, r)

\* the elements of the forest number seq (representation_utils is not part
\* of the sources at hand): one visible and one invisible, or one visible
ForestNodes(forest) ==
  IF forest.seq = 1
  THEN << [text |-> "OK", is_visible |-> TRUE],
          [text |-> "hidden", is_visible |-> FALSE] >>
  ELSE << [text |-> "Cancel", is_visible |-> TRUE] >>

\* representation_utils.forest_to_ui_elements(forest, exclude_invisible_elements)
forest_to_ui_elements(forest, exclude_invisible_elements) ==
  LET Kept(n) == ~exclude_invisible_elements \/ n.is_visible
      nodes == SelectSeq(ForestNodes(forest), Kept)
  IN [i \in DOMAIN nodes |-> [text |-> nodes[i].text,
                               is_visible |-> nodes[i].is_visible]]

\* what adb_utils.uiautomator_dump(self._env) can return: the node texts
Dumps == { <<>>, <<"OK", "Cancel">> }

\* representation_utils.xml_dump_to_ui_elements(xml)
xml_dump_to_ui_elements(xml) == [i \in DOMAIN xml |-> [text |-> xml[i]]]

\* The dispatch of get_ui_elements with the uiautomator branch missing
UiBranchNoDump(a11y_method) ==
  IF a11y_method = "none" THEN "empty" ELSE "forest"

\* the branch get_ui_elements takes (android_world_controller.py:282-292)
UiBranch(a11y_method) ==
  IF a11y_method = "a11y_forwarder_app" THEN "forest"
  ELSE IF a11y_method = "uiautomator" THEN "dump"
  ELSE "empty"

CtlInit ==
  /\ ctl_a11y_method \in A11yMethods
  /\ ctl_env = ControllerEnv(1, ctl_a11y_method)
  /\ ctl_original_env = LoadedEnv(1)
  /\ ctl_made = 1
  /\ ctl_open = {1}
  /\ ctl_call = [pc |-> "idle", env0 |-> ctl_env, fetched |-> <<>>,
                 reconnects |-> 0]
  /\ ctl_ui = [pc |-> "idle"]

\* a caller enters get_a11y_forest
ForestCall ==
  /\ ctl_call.pc \in {"idle", "done", "refreshed"}
  /\ ctl_ui.pc # "forest"
  /\ ctl_call' = [pc |-> "try", env0 |-> ctl_env, fetched |-> <<>>,
                  reconnects |-> 0]
  /\ ctl_ui' = [pc |-> "idle"]
  /\ UNCHANGED <<ctl_env, ctl_a11y_method, ctl_made, ctl_original_env,
                 ctl_open>>
  /\ UNCHANGED <<agentVars, txVars, hwVars, gtVars, callers>>

\* get_a11y_forest catching every exception of the first fetch:
\* try: return self._get_a11y_forest()   except Exception: print(...)
ForestTryCatchAll ==
  /\ ctl_call.pc = "try"
  /\ \E device \in CtlDevices(ctl_env.id) :
       LET r == _get_a11y_forest(device)
           c == [ctl_call EXCEPT !.fetched = Append(@, [on |-> ctl_env.id] @@ r)]
       IN ctl_call' =
            IF r.outcome # "return"
            THEN [c EXCEPT !.pc = "refresh"]
            ELSE ForestEnds(c, r)
  /\ UNCHANGED <<ctl_env, ctl_a11y_method, ctl_made, ctl_original_env,
                 ctl_open, ctl_ui>>
  /\ UNCHANGED <<agentVars, txVars, hwVars, gtVars, callers>>

\* try: return self._get_a11y_forest()   except RuntimeError: print(...)
ForestTry ==
  /\ ctl_call.pc = "try"
  /\ \E device \in CtlDevices(ctl_env.id) :
       LET r == _get_a11y_forest(device)
           c == [ctl_call EXCEPT !.fetched = Append(@, [on |-> ctl_env.id] @@ r)]
       IN ctl_call' =
            IF r.outcome = "RuntimeError"
            THEN [c EXCEPT !.pc = "refresh"]
            ELSE ForestEnds(c, r)
  /\ UNCHANGED <<ctl_env, ctl_a11y_method, ctl_made, ctl_original_env,
                 ctl_open, ctl_ui>>
  /\ UNCHANGED <<agentVars, txVars, hwVars, gtVars, callers>>

\* refresh_env assigning self._env as soon as the new environment is loaded,
\* before the new controller is built
ForestRefreshEarlySwap ==
  /\ ctl_call.pc = "refresh"
  /\ ctl_made < MaxHandles
  /\ \E how \in GetControllerInputs :
       LET made == get_controller(ctl_made + 1, how)
           refresh == [how |-> how, log |-> made.log]
       IN IF made.outcome = "return"
          THEN /\ ctl_env' = made.env
               /\ ctl_made' = ctl_made + 1
               /\ ctl_open' = ctl_open \cup {ctl_made + 1}
               /\ ctl_call' = [pc |-> "retry",
                               reconnects |-> ctl_call.reconnects + 1,
                               refresh |-> refresh] @@ ctl_call
          ELSE /\ ctl_call' = [pc |-> "done", outcome |-> made.outcome,
                               reconnects |-> ctl_call.reconnects + 1,
                               refresh |-> refresh] @@ ctl_call
               /\ ctl_env' = IF made.loaded THEN LoadedEnv(ctl_made + 1)
                             ELSE ctl_env
               /\ ctl_made' = IF made.loaded THEN ctl_made + 1 ELSE ctl_made
               /\ ctl_open' = IF made.loaded THEN ctl_open \cup {ctl_made + 1}
                              ELSE ctl_open
  /\ UNCHANGED <<ctl_a11y_method, ctl_original_env, ctl_ui>>
  /\ UNCHANGED <<agentVars, txVars, hwVars, gtVars, callers>>

\* self.refresh_env(): self._env is assigned once get_controller has
\* returned; an exception of get_controller leaves refresh_env and
\* get_a11y_forest, with one more environment loaded and open when it came
\* from AndroidWorldController.__init__.  self._original_env is not assigned
\* and close() is called on no environment.
ForestRefresh ==
  /\ ctl_call.pc = "refresh"
  /\ ctl_made < MaxHandles
  /\ \E how \in GetControllerInputs :
       LET made == get_controller(ctl_made + 1, how)
           refresh == [how |-> how, log |-> made.log]
       IN IF made.outcome = "return"
          THEN /\ ctl_env' = made.env
               /\ ctl_made' = ctl_made + 1
               /\ ctl_open' = ctl_open \cup {ctl_made + 1}
               /\ ctl_call' = [pc |-> "retry",
                               reconnects |-> ctl_call.reconnects + 1,
                               refresh |-> refresh] @@ ctl_call
          ELSE /\ ctl_call' = [pc |-> "done", outcome |-> made.outcome,
                               reconnects |-> ctl_call.reconnects + 1,
                               refresh |-> refresh] @@ ctl_call
               /\ ctl_made' = IF made.loaded THEN ctl_made + 1 ELSE ctl_made
               /\ ctl_open' = IF made.loaded THEN ctl_open \cup {ctl_made + 1}
                              ELSE ctl_open
               /\ UNCHANGED ctl_env
  /\ UNCHANGED <<ctl_a11y_method, ctl_original_env, ctl_ui>>
  /\ UNCHANGED <<agentVars, txVars, hwVars, gtVars, callers>>

\* a caller calls refresh_env itself, between two calls: the same
\* assignment, outside any get_a11y_forest call and whatever the a11y method
\* of the controller is
RefreshCall ==
  /\ ctl_call.pc \in {"idle", "done", "refreshed"}
  /\ ctl_ui.pc # "forest"
  /\ ctl_made < MaxHandles
  /\ \E how \in GetControllerInputs :
       LET made == get_controller(ctl_made + 1, how)
       IN /\ ctl_call' = [pc |-> "refreshed", env0 |-> ctl_env,
                          fetched |-> <<>>, reconnects |-> 1,
                          refresh |-> [how |-> how, log |-> made.log],
                          outcome |-> made.outcome]
          /\ ctl_env' = IF made.outcome = "return" THEN made.env ELSE ctl_env
          /\ ctl_made' = IF made.loaded THEN ctl_made + 1 ELSE ctl_made
          /\ ctl_open' = IF made.loaded THEN ctl_open \cup {ctl_made + 1}
                         ELSE ctl_open
  /\ ctl_ui' = [pc |-> "idle"]
  /\ UNCHANGED <<ctl_a11y_method, ctl_original_env>>
  /\ UNCHANGED <<agentVars, txVars, hwVars, gtVars, callers>>

\* return self._get_a11y_forest(), in the except branch
ForestRetry ==
  /\ ctl_call.pc = "retry"
  /\ \E device \in CtlDevices(ctl_env.id) :
       LET r == _get_a11y_forest(device)
       IN ctl_call' = ForestRetryEnds([ctl_call EXCEPT
                        !.fetched = Append(@, [on |-> ctl_env.id] @@ r)], r)
  /\ UNCHANGED <<ctl_env, ctl_a11y_method, ctl_made, ctl_original_env,
                 ctl_open, ctl_ui>>
  /\ UNCHANGED <<agentVars, txVars, hwVars, gtVars, callers>>

\* a caller enters get_ui_elements: with the forwarder app it calls
\* self.get_a11y_forest(), with uiautomator it dumps the UI through adb, and
\* otherwise it returns []
UiCall ==
  /\ ctl_ui.pc \in {"idle", "done"}
  /\ ctl_call.pc \in {"idle", "done", "refreshed"}
  /\ LET branch == UiBranch(ctl_a11y_method)
         no_call == [pc |-> "idle", env0 |-> ctl_env, fetched |-> <<>>,
                     reconnects |-> 0]
     IN IF branch = "forest"
        THEN /\ ctl_ui' = [pc |-> "forest", dumps |-> 0]
             /\ ctl_call' = [no_call EXCEPT !.pc = "try"]
        ELSE IF branch = "dump"
        THEN /\ \E xml \in Dumps :
                  ctl_ui' = [pc |-> "done", dumps |-> 1, xml |-> xml,
                             outcome |-> "return",
                             ret |-> xml_dump_to_ui_elements(xml)]
             /\ ctl_call' = no_call
        ELSE /\ ctl_ui' = [pc |-> "done", dumps |-> 0,
                           outcome |-> "return", ret |-> <<>>]
             /\ ctl_call' = no_call
  /\ UNCHANGED <<ctl_env, ctl_a11y_method, ctl_made, ctl_original_env, ctl_open>>
  /\ UNCHANGED <<agentVars, txVars, hwVars, gtVars, callers>>

\* get_ui_elements once its get_a11y_forest call has ended: the forest is
\* flattened without its invisible elements, an exception passes through
UiReturn ==
  /\ ctl_ui.pc = "forest"
  /\ ctl_call.pc = "done"
  /\ ctl_ui' = [pc |-> "done", outcome |-> ctl_call.outcome]
                 @@ (IF ctl_call.outcome = "return"
                     THEN [ret |-> forest_to_ui_elements(ctl_call.ret, TRUE)]
                     ELSE <<>>)
                 @@ ctl_ui
  /\ UNCHANGED <<ctl_env, ctl_a11y_method, ctl_made, ctl_original_env,
                 ctl_open, ctl_call>>
  /\ UNCHANGED <<agentVars, txVars, hwVars, gtVars, callers>>

(***************************************************************************)
(* SpecCtl: one controller serving one call at a time.                     *)
(***************************************************************************)
InitCtl == AgentInit /\ TxIdle /\ HwIdle /\ GtIdle /\ CtlInit /\ CallersIdle

NextCtl ==
  \/ ForestCall \/ ForestTry \/ ForestRefresh \/ ForestRetry
  \/ RefreshCall \/ UiCall \/ UiReturn

SpecCtl == InitCtl /\ [][NextCtl]_vars

(***************************************************************************)
(* SpecTerminate: one driver, one start_new_task call and then up to       *)
(* MaxSends update_task_status calls for that session; tx_log keeps each   *)
(* call's argument and what its _send_rpc_request did.                     *)
(***************************************************************************)
InitTerminate == Init

StartOnce ==
  /\ current_task_name = Unset
  /\ \E task_name \in TaskNames, task_id \in TaskIds,
        device_type \in DeviceTypes, script \in AckScripts :
       start_new_task(task_name, task_id, device_type, script)
  /\ UNCHANGED <<urlVars, txVars, hwVars, gtVars, ctlVars, callers>>

TerminateAgain ==
  /\ current_task_name # Unset
  /\ Len(tx_log) < MaxSends
  /\ \E arg \in StatusArgs, script \in AckScripts :
       /\ update_task_status(arg, script)
       /\ tx_log' = Append(tx_log, [arg |-> arg, rpc |-> last'.rpc])
  /\ UNCHANGED <<urlVars, tx_script, tx_now, tx_result, hwVars, gtVars,
                 ctlVars, callers>>

NextTerminate == StartOnce \/ TerminateAgain

SpecTerminate == InitTerminate /\ [][NextTerminate]_vars

(***************************************************************************)
(* SpecCore: one operation of the core from its start to its end, whichever *)
(* it is: one _send_rpc_request call, one get_a11y_tree call, or the calls  *)
(* of one controller.                                                      *)
(***************************************************************************)
InitCore == InitSend \/ InitFetch \/ InitCtl

CoreSend == gt_env = <<>> /\ ctl_made = 0 /\ Send

CoreFetch == gt_env # <<>> /\ Fetch

CoreCtl == ctl_made >= 1 /\ NextCtl

NextCore == CoreSend \/ CoreFetch \/ CoreCtl

SpecCore == InitCore /\ [][NextCore]_vars

(***************************************************************************)
(* SpecCallers: NumCallers threads calling get_a11y_forest and             *)
(* get_ui_elements of one controller built with the forwarder app.  The    *)
(* class takes no lock: a step of one caller can come between any two      *)
(* steps of another.  get_a11y_tree is one step up to its polling loop and *)
(* one step for each pull with the sleep after it, after the step that     *)
(* reads self._env for it; refresh_env evaluates self.env and reads the    *)
(* configuration of that handle, a step each, for each of the three        *)
(* arguments of get_controller, then enters get_controller: loading the    *)
(* new environment, then building the controller around it and assigning   *)
(* self._env.                                                              *)
(***************************************************************************)
Callers == 1..NumCallers
CallerOps == {"get_a11y_forest", "get_ui_elements"}

\* the device under a get_a11y_tree call of a caller: a forest at the first
\* pull, or no category at every pull
CallerDevices(h) ==
  { [airplane |-> FALSE,
     pulls |-> PullScript(k, HasCategory(<<Forest(h, 1)>>), DefaultMaxRetries)] :
      k \in {0, DefaultMaxRetries} }

\* the callers inside get_controller: their refresh_env has begun and has
\* not assigned self._env yet
Reconnecting == { c \in Callers : callers[c].pc = "building" }

\* caller c uses the handle numbered on for `what` now, while self._env
\* holds the handle numbered held and the callers of during are inside
\* get_controller
HandleUse(c, what, on) ==
  [what |-> what, on |-> on, held |-> ctl_env.id,
   during |-> Reconnecting \ {c}]

InitCallers ==
  /\ AgentInit /\ TxIdle /\ HwIdle /\ GtIdle /\ CtlInit
  /\ ctl_a11y_method = "a11y_forwarder_app"
  /\ callers = [c \in Callers |-> [pc |-> "idle", used |-> <<>>]]

\* caller c enters get_a11y_forest, directly or through get_ui_elements
CallerEnter(c) ==
  /\ callers[c].pc = "idle"
  /\ \E op \in CallerOps :
       callers' = [callers EXCEPT ![c] = [pc |-> "try", op |-> op,
                                           used |-> <<>>]]
  /\ UNCHANGED <<agentVars, txVars, hwVars, gtVars, ctlVars>>

\* self._get_a11y_forest() of caller c, in the try or in the except branch:
\* self._env is read and handed to get_a11y_tree, which keeps that handle for
\* the whole call.  No lock is held, so the other callers can run, and
\* assign self._env, before the handle is used.
CallerReadEnv(c) ==
  /\ callers[c].pc \in {"try", "retry"}
  /\ callers' = [callers EXCEPT ![c] =
       [pc |-> "fetching", branch |-> callers[c].pc, env |-> ctl_env]
         @@ callers[c]]
  /\ UNCHANGED <<agentVars, txVars, hwVars, gtVars, ctlVars>>

\* get_a11y_tree of caller c up to the polling loop, on the handle it was
\* given: it looks for the wrapper and queries airplane mode, whatever
\* self._env holds by now
CallerFetchBegin(c) ==
  /\ callers[c].pc = "fetching"
  /\ LET me == callers[c]
     IN \E device \in CallerDevices(me.env.id) :
          callers' = [callers EXCEPT ![c] =
            IF _has_wrapper(me.env.chain, "A11yGrpcWrapper").found
            THEN [pc |-> "pulling", device |-> device, attempt |-> 1,
                  used |-> Append(me.used,
                                  HandleUse(c, "airplane_check", me.env.id))]
                   @@ me
            ELSE [pc |-> "done", outcome |-> "ValueError"] @@ me]
  /\ UNCHANGED <<agentVars, txVars, hwVars, gtVars, ctlVars>>

\* one turn of the polling loop of caller c: a pull on the handle
\* get_a11y_tree was given, then the return of the forest, or the warning
\* and time.sleep(sleep_duration), during which the other callers run.  After
\* the last turn get_a11y_tree raises RuntimeError, which get_a11y_forest
\* catches in its try branch only.
CallerPull(c) ==
  /\ callers[c].pc = "pulling"
  /\ LET me == callers[c]
         turn == PullLoop(me.device, me.attempt, me.attempt, 0)
         used == Append(me.used, HandleUse(c, "pull", me.env.id))
         ends(outcome) == [pc |-> "done", outcome |-> outcome, used |-> used]
                            @@ me
     IN callers' = [callers EXCEPT ![c] =
          IF turn.outcome = "return"
          THEN [ret |-> turn.forest] @@ ends("return")
          ELSE IF turn.outcome # "exhausted"
          THEN ends(turn.outcome)
          ELSE IF me.attempt < DefaultMaxRetries
          THEN [me EXCEPT !.attempt = @ + 1, !.used = used]
          ELSE IF me.branch = "try"
          THEN [me EXCEPT !.pc = "refresh", !.used = used]
          ELSE ends("RuntimeError")]
  /\ UNCHANGED <<agentVars, txVars, hwVars, gtVars, ctlVars>>

\* the arguments of get_controller in refresh_env, in the order they are
\* evaluated: each is read from the configuration of self.env
ConfigReads == <<"console_port", "adb_path", "grpc_port">>

\* refresh_env of caller c evaluates self.env for the next argument of
\* get_controller.  No lock is held: the other callers can run, and assign
\* self._env, between this and the read of the configuration, and between
\* one argument and the next.
CallerRefreshEval(c) ==
  /\ callers[c].pc = "refresh"
  /\ "handle" \notin DOMAIN callers[c]
  /\ callers' = [callers EXCEPT ![c] = [handle |-> ctl_env.id] @@ callers[c]]
  /\ UNCHANGED <<agentVars, txVars, hwVars, gtVars, ctlVars>>

\* refresh_env of caller c reads the next argument from the configuration of
\* the handle it evaluated; after the last one it enters get_controller
CallerRefreshBegin(c) ==
  /\ callers[c].pc = "refresh"
  /\ "handle" \in DOMAIN callers[c]
  /\ LET me == callers[c]
         used == Append(me.used, HandleUse(c, "config", me.handle))
         rest == [k \in DOMAIN me \ {"handle"} |-> me[k]]
         read == Cardinality({ i \in DOMAIN used : used[i].what = "config" })
     IN callers' = [callers EXCEPT ![c] =
          [pc |-> IF read = Len(ConfigReads) THEN "building" ELSE "refresh",
           used |-> used] @@ rest]
  /\ UNCHANGED <<agentVars, txVars, hwVars, gtVars, ctlVars>>

\* the get_controller calls of the callers: local mode
CallerControllerInputs == { h \in GetControllerInputs : ~h.is_remote }

\* get_controller of caller c up to the return of the loader: one more
\* environment is loaded and open, or the exception of the loader leaves
\* the call.  Building the controller around it comes next and waits on the
\* device (an adb call, the start of the wrapper, reset), so the other
\* callers run in between.
CallerLoad(c) ==
  /\ callers[c].pc = "building"
  /\ "made" \notin DOMAIN callers[c]
  /\ ctl_made < MaxHandles
  /\ \E how \in CallerControllerInputs :
       LET made == get_controller(ctl_made + 1, how)
       IN IF made.loaded
          THEN /\ ctl_made' = ctl_made + 1
               /\ ctl_open' = ctl_open \cup {ctl_made + 1}
               /\ callers' = [callers EXCEPT ![c] =
                    [made |-> ctl_made + 1] @@ callers[c]]
          ELSE /\ callers' = [callers EXCEPT ![c] =
                    [pc |-> "done", outcome |-> made.outcome] @@ callers[c]]
               /\ UNCHANGED <<ctl_made, ctl_open>>
  /\ UNCHANGED <<ctl_env, ctl_a11y_method, ctl_original_env, ctl_call, ctl_ui>>
  /\ UNCHANGED <<agentVars, txVars, hwVars, gtVars>>

\* get_controller of caller c from the loaded environment on, and the
\* assignment of refresh_env: the controller is built around the environment
\* this caller loaded and self._env is assigned its handle, whatever
\* self._env holds by now; an exception of AndroidWorldController.__init__
\* leaves the call with self._env as it is
CallerRefreshEnd(c) ==
  /\ callers[c].pc = "building"
  /\ "made" \in DOMAIN callers[c]
  /\ \E how \in { h \in CallerControllerInputs : Loaded(h) } :
       LET made == get_controller(callers[c].made, how)
       IN IF made.outcome = "return"
          THEN /\ ctl_env' = made.env
               /\ callers' = [callers EXCEPT ![c].pc = "retry"]
          ELSE /\ callers' = [callers EXCEPT ![c] =
                    [pc |-> "done", outcome |-> made.outcome] @@ callers[c]]
               /\ UNCHANGED ctl_env
  /\ UNCHANGED <<ctl_made, ctl_open, ctl_a11y_method, ctl_original_env,
                 ctl_call, ctl_ui>>
  /\ UNCHANGED <<agentVars, txVars, hwVars, gtVars>>

NextCallers ==
  \E c \in Callers :
    \/ CallerEnter(c)
    \/ CallerReadEnv(c)
    \/ CallerFetchBegin(c)
    \/ CallerPull(c)
    \/ CallerRefreshEval(c)
    \/ CallerRefreshBegin(c)
    \/ CallerLoad(c)
    \/ CallerRefreshEnd(c)

SpecCallers == InitCallers /\ [][NextCallers]_vars

(***************************************************************************)
(* Claims.                                                                 *)
(***************************************************************************)
Sent == tx_result # NotCalled

\* the first attempt of the script that is delivered, 0 when none is
FirstDelivered(script) ==
  LET hits == { i \in 1..MaxAttempts : script[i].kind = "response" }
  IN IF hits = {} THEN 0 ELSE CHOOSE i \in hits : \A j \in hits : i <= j

TwoFailedThenDelivered ==
  /\ tx_script[1].kind = "exception"
  /\ tx_script[2].kind = "exception"
  /\ tx_script[3].kind = "response"

\* the attempt bound, the stop at the first delivery and the exhaustion case
\* of C1, which hold as stated
C1_LoopPart ==
  /\ tx_result.request_cnt <= MaxAttempts
  /\ Len(tx_result.posts) = tx_result.request_cnt
  /\ FirstDelivered(tx_script) # 0
       => /\ tx_result.request_cnt = FirstDelivered(tx_script)
          /\ tx_result.response = tx_script[FirstDelivered(tx_script)]
  /\ FirstDelivered(tx_script) = 0
       => /\ tx_result.request_cnt = MaxAttempts
          /\ tx_result.outcome = "RuntimeError"
          /\ "result" \notin DOMAIN tx_result

\* C1 as stated: every send makes at most 3 attempts and stops at the first
\* delivered one; two failures then a delivered third attempt: send returns the
\* third response with exactly two failures logged; three failures: send
\* raises RuntimeError and returns nothing.
C1_Original ==
  Sent =>
    /\ C1_LoopPart
    /\ TwoFailedThenDelivered
         => /\ tx_result.outcome = "return"
            /\ tx_result.response = tx_script[3]
            /\ FailuresLogged(tx_result.console) = 2

\* C1 amended: as C1, but send returns the third response only when that
\* response has no HTTP error status and a JSON body; the two logged failures
\* hold for every delivered third attempt.
C1_SendRetry ==
  Sent =>
    /\ C1_LoopPart
    /\ TwoFailedThenDelivered
         => /\ tx_result.response = tx_script[3]
            /\ FailuresLogged(tx_result.console) = 2
            /\ (tx_script[3].status < HttpErrorFrom /\ "json" \in DOMAIN tx_script[3])
                 => /\ tx_result.outcome = "return"
                    /\ tx_result.result = tx_script[3].json

C1_Witness ==
  /\ Sent
  /\ TwoFailedThenDelivered
  /\ tx_result.outcome = "return"
  /\ tx_result.request_cnt = 3
  /\ FailuresLogged(tx_result.console) = 2

\* C9: a delivered response with an HTTP error status makes send raise the
\* request failure with no attempt after the delivered one, after 1, 2 or 3
\* attempts; the attempts of a send with a delivery are its failed deliveries
\* plus the one delivered.
C9_HttpErrorNotRetried ==
  (Sent /\ tx_result.response.kind = "response") =>
    LET n == tx_result.request_cnt
    IN /\ tx_script[n] = tx_result.response
       /\ n = FailedAmong(tx_script, n) + 1
       /\ n = FailuresLogged(tx_result.console) + 1
       /\ Len(tx_result.posts) = n
       /\ tx_result.response.status >= HttpErrorFrom
            => /\ tx_result.outcome = "HTTPError"
               /\ "result" \notin DOMAIN tx_result

C9_Witness ==
  /\ Sent
  /\ tx_result.outcome = "HTTPError"
  /\ tx_result.request_cnt = 3
  /\ tx_script[3].status = HttpServerError


\* the last operation was a step whose request was answered with a decoded body
StepAnswered == last.op = "step" /\ last.rpc.outcome = "return"

\* the result object of that body
StepResult == last.rpc.result.result

HasReason(result) == "data" \in DOMAIN result /\ "reason" \in DOMAIN result.data

\* C2: a step response with code 1 makes step report completion with a payload
\* holding exactly the response's data; one with another code and a reason in
\* its data makes step report non-completion with an empty payload, and the
\* last failure reason is that reason.
C2_StepSemantics ==
  StepAnswered =>
    /\ StepResult.code = 1
         => /\ last.outcome = "return"
            /\ last.ret.done
            /\ DOMAIN last.ret.data = {"midscene_action_response"}
            /\ "data" \in DOMAIN StepResult
                 => last.ret.data.midscene_action_response = StepResult.data
    /\ (StepResult.code # 1 /\ HasReason(StepResult))
         => /\ last.outcome = "return"
            /\ ~last.ret.done
            /\ last.ret.data = <<>>
            /\ failed_step_reason = StepResult.data.reason

\* a failed step with its reason recorded, after a step that completed with
\* the payload {x: 1}
C2_Witness ==
  /\ StepAnswered
  /\ StepResult = [code |-> 0, data |-> DataReason]
  /\ ~last.ret.done
  /\ failed_step_reason = "not found"
  /\ Len(run_log) = 2
  /\ run_log[1] = [result |-> [code |-> 1, data |-> DataOther]]
  /\ interaction_cache = "{'x': '1'}"

\* C8: every step response with a code other than 1 (with a reason, without
\* one, or without data) makes step return non-completion with an empty
\* payload and raise nothing; without a reason the last failure reason is "".
C8_SemanticFailureNeverRaises ==
  (StepAnswered /\ StepResult.code # 1) =>
    /\ last.outcome = "return"
    /\ ~last.ret.done
    /\ last.ret.data = <<>>
    /\ ~HasReason(StepResult) => failed_step_reason = ""

\* the last operation was an update_task_status with a session identifier set
Terminated == last.op = "update_task_status" /\ current_task_name # Unset

\* C6: a terminate call sends one terminate-agent request: its id is the
\* session identifier, its userTaskStatus the status passed ("Failed" when
\* none is), its agentStepError the last recorded failure reason.
C6_TerminateRequest ==
  Terminated =>
    /\ last.rpc # NotCalled
    /\ last.rpc.request_cnt >= 1
    /\ \A i \in DOMAIN last.rpc.posts :
         /\ last.rpc.posts[i].method = "terminate-agent"
         /\ last.rpc.posts[i].params =
              [id |-> current_task_name,
               userTaskStatus |-> IF last.arg = NoArg THEN "Failed" ELSE last.arg,
               agentStepError |-> failed_step_reason]

\* terminate() without a status, after a failed step and an earlier
\* terminate("Succeeded") of the same session
C6_Witness ==
  /\ Terminated
  /\ last.arg = NoArg
  /\ last.rpc.outcome = "return"
  /\ failed_step_reason = "not found"
  /\ last.rpc.posts[1].params.userTaskStatus = "Failed"
  /\ last.rpc.posts[1].params.agentStepError = "not found"

\* the last operation was a step that ended in a step failure
StepFailed ==
  /\ session_created
  /\ StepAnswered
  /\ StepResult.code # 1
  /\ last.outcome = "return"

\* C7: when a step ends in a step failure, the driver itself sends a
\* terminate-agent request for the session: the requests of the step call
\* hold one.
C7_DriverTerminatesAfterStepFailure ==
  StepFailed =>
    \E i \in DOMAIN last.rpc.posts :
      /\ last.rpc.posts[i].method = "terminate-agent"
      /\ last.rpc.posts[i].params.id = current_task_name


\* a get_a11y_forest call has ended
ForestDone == ctl_call.pc = "done"

\* C3: a get_a11y_forest call whose first fetch fails with RuntimeError and
\* whose fetch after the reconnection succeeds has reconnected exactly once
\* and returns the snapshot fetched from the new handle; a call whose first
\* fetch succeeds has not reconnected and leaves the owned handle as it was.
C3_ReconnectOnce ==
  /\ ctl_call.reconnects <= 1
  /\ ForestDone =>
       /\ ( /\ Len(ctl_call.fetched) = 2
            /\ ctl_call.fetched[1].outcome = "RuntimeError"
            /\ ctl_call.fetched[2].outcome = "return" )
            => /\ ctl_call.reconnects = 1
               /\ ctl_call.outcome = "return"
               /\ ctl_env.id # ctl_call.env0.id
               /\ ctl_call.fetched[1].on = ctl_call.env0.id
               /\ ctl_call.fetched[2].on = ctl_env.id
               /\ ctl_call.ret = ctl_call.fetched[2].forest
               /\ ctl_call.ret.from = ctl_env.id
       /\ ( /\ Len(ctl_call.fetched) >= 1
            /\ ctl_call.fetched[1].outcome = "return" )
            => /\ ctl_call.reconnects = 0
               /\ Len(ctl_call.fetched) = 1
               /\ ctl_call.outcome = "return"
               /\ ctl_call.ret = ctl_call.fetched[1].forest
               /\ ctl_env = ctl_call.env0

C3_Witness ==
  /\ ForestDone
  /\ ctl_call.reconnects = 1
  /\ ctl_call.outcome = "return"
  /\ ctl_call.fetched[1].pulls = DefaultMaxRetries
  /\ ctl_call.ret.from = 2

\* the handle of the fetch holds the capability wrapper
GtHasCapability ==
  \E i \in DOMAIN gt_env : IsInstance(gt_env[i], "A11yGrpcWrapper")

\* a pull that reports the snapshot category as not yet available
NotYet(o) == o.kind = "extras" /\ "accessibility_tree" \notin DOMAIN o.extras

\* a pull that yields a snapshot
Yields(o) ==
  /\ o.kind = "extras"
  /\ "accessibility_tree" \in DOMAIN o.extras
  /\ o.extras.accessibility_tree # <<>>

\* C4: on a handle with the capability, r < max_retries pulls "not yet
\* available" followed by a pull with a snapshot make fetch return that
\* snapshot after exactly r + 1 pulls; max_retries pulls "not yet available"
\* (max_retries = 0 included) make fetch raise RuntimeError after no more than
\* max_retries pulls.
C4_FetchRetry ==
  (gt_result # NotCalled /\ GtHasCapability) =>
    /\ \A r \in 0..(gt_max_retries - 1) :
         ( /\ \A i \in 1..r : NotYet(gt_device.pulls[i])
           /\ Yields(gt_device.pulls[r + 1]) )
           => /\ gt_result.outcome = "return"
              /\ gt_result.pulls = r + 1
              /\ LET buffer == gt_device.pulls[r + 1].extras.accessibility_tree
                 IN gt_result.forest = buffer[Len(buffer)]
    /\ (\A i \in 1..gt_max_retries : NotYet(gt_device.pulls[i]))
         => /\ gt_result.outcome = "RuntimeError"
            /\ gt_result.pulls <= gt_max_retries
            /\ "forest" \notin DOMAIN gt_result

C4_Witness ==
  /\ gt_result # NotCalled
  /\ GtHasCapability
  /\ gt_max_retries >= 3
  /\ NotYet(gt_device.pulls[1])
  /\ NotYet(gt_device.pulls[2])
  /\ gt_result.outcome = "return"
  /\ gt_result.pulls = 3

\* C10: without the capability wrapper in the chain, fetch raises ValueError
\* for every max_retries, before any airplane-mode check, enable-networking
\* command, sleep or pull.
C10_MisconfiguredFirst ==
  (gt_result # NotCalled /\ ~GtHasCapability) =>
    /\ gt_result.outcome = "ValueError"
    /\ gt_result.airplane_checks = 0
    /\ gt_result.enable_networking = 0
    /\ gt_result.sleeps = 0
    /\ gt_result.pulls = 0

C10_Witness ==
  /\ gt_result # NotCalled
  /\ gt_result.outcome = "ValueError"
  /\ gt_env = <<"BaseWrapper", "AndroidEnv">>
  /\ gt_max_retries > 0
  /\ gt_device.airplane
  /\ Yields(gt_device.pulls[1])

\* the links of the inspected chain that expose the target
HwHits ==
  { i \in DOMAIN hw_env : IsInstance(hw_env[i], hw_result.target) }

\* C5: locate returns true iff some link of the chain exposes the target;
\* with the first such link at depth k it has made k + 1 inspections, and
\* with none it has inspected every link.
C5_Locate ==
  hw_result # NotCalled =>
    /\ hw_result.found <=> HwHits # {}
    /\ HwHits # {}
         => \E k \in 0..(Len(hw_env) - 1) :
              /\ k + 1 \in HwHits
              /\ \A i \in HwHits : k + 1 <= i
              /\ hw_result.inspections = k + 1
    /\ HwHits = {} => hw_result.inspections = Len(hw_env)

C5_Witness ==
  /\ hw_result # NotCalled
  /\ hw_result.found
  /\ Len(hw_env) = 3
  /\ HwHits = {3}
  /\ hw_result.inspections = 3

\* C11: a fetch on a handle with the capability makes one airplane-mode check
\* before each pull: with m >= 1 pulls it has made m checks, at most
\* max_retries, and it has re-enabled networking once per check that found
\* networking off.
C11_CheckBeforeEachPull ==
  (gt_result # NotCalled /\ GtHasCapability /\ gt_result.pulls >= 1) =>
    /\ gt_result.airplane_checks = gt_result.pulls
    /\ gt_result.airplane_checks <= gt_max_retries
    /\ gt_result.enable_networking =
         (IF gt_device.airplane THEN gt_result.airplane_checks ELSE 0)

\* both fetches of the call failed with RuntimeError
BothFetchesFailed ==
  /\ Len(ctl_call.fetched) = 2
  /\ ctl_call.fetched[1].outcome = "RuntimeError"
  /\ ctl_call.fetched[2].outcome = "RuntimeError"

\* C12: every get_a11y_forest call reconnects at most once and fetches at
\* most twice; when the first fetch and the fetch after the reconnection both
\* fail with RuntimeError, the call ends with that RuntimeError and returns
\* nothing, after exactly one reconnection and the second fetch on the new
\* handle.
C12_SecondFailurePropagates ==
  /\ ctl_call.reconnects <= 1
  /\ Len(ctl_call.fetched) <= 2
  /\ BothFetchesFailed
       => /\ ForestDone
          /\ ctl_call.outcome = "RuntimeError"
          /\ "ret" \notin DOMAIN ctl_call
          /\ ctl_call.reconnects = 1
          /\ ctl_call.fetched[1].on = ctl_call.env0.id
          /\ ctl_call.fetched[2].on = ctl_env.id
          /\ ctl_env.id # ctl_call.env0.id

C12_Witness ==
  /\ ForestDone
  /\ BothFetchesFailed
  /\ ctl_call.outcome = "RuntimeError"
  /\ ctl_call.fetched[1].pulls = DefaultMaxRetries
  /\ ctl_call.fetched[2].pulls = DefaultMaxRetries
  /\ ctl_call.reconnects = 1

\* a reconnection has been tried in the call
Reconnected == "refresh" \in DOMAIN ctl_call /\ ctl_call.pc # "refreshed"

\* the remote adb connect of the reconnection failed
AdbConnectFailed ==
  /\ ctl_call.refresh.how.is_remote
  /\ ctl_call.refresh.how.adb \in {"failed", "exception"}

\* the reconnection met a transport-level error: the adb connect failed or
\* the environment could not be loaded
ReconnectFailed == AdbConnectFailed \/ ~Built(ctl_call.refresh.how)

\* C13: when a transport-level error occurs during the reconnection (a failed
\* remote adb connect included), the failed adb connect is logged, the call
\* ends with the fatal error of the reconnection, and no fetch is made after
\* the failed reconnection.
C13_ReconnectFailureIsFatal ==
  (Reconnected /\ ReconnectFailed) =>
    /\ AdbConnectFailed
         => \E i \in DOMAIN ctl_call.refresh.log :
              ctl_call.refresh.log[i].level \in {"warning", "error"}
    /\ ForestDone
    /\ ctl_call.outcome = "ReconnectError"
    /\ Len(ctl_call.fetched) = 1

\* C14: the controller holds exactly one environment handle, the one its
\* fetches go to, and at most one environment is open at a time: after a
\* reconnection the environment of the old handle has been closed and the
\* controller no longer refers to it.
C14_OneLiveHandle ==
  /\ ctl_original_env.id = ctl_env.id
  /\ Cardinality(ctl_open) <= 1
  /\ ctl_open = {ctl_env.id}

\* C15: with NumCallers callers of one controller in any interleaving, at
\* most one reconnection is in flight at a time, and no caller uses the
\* handle (for a fetch with its airplane-mode query, or for a configuration
\* read) while the reconnection of another caller is in flight.
C15_ReconnectionSerialized ==
  /\ Cardinality(Reconnecting) <= 1
  /\ \A c \in Callers :
       \A i \in DOMAIN callers[c].used : callers[c].used[i].during = {}

\* a get_ui_elements call has ended
UiDone == ctl_ui.pc = "done"

\* C18: get_ui_elements dispatches on the selector only.  With the forwarder
\* app it makes a get_a11y_forest call (with its reconnection) and no dump,
\* ends as that call ends, and returns the visible elements of the forest
\* that call returned, in order; with uiautomator it makes one dump and
\* returns its elements, with no fetch and no reconnection; with none it
\* returns the empty sequence with no dump, no fetch and no reconnection.
C18_UiElementsDispatch ==
  UiDone =>
    /\ ctl_a11y_method = "a11y_forwarder_app"
         => /\ ctl_ui.dumps = 0
            /\ ForestDone
            /\ Len(ctl_call.fetched) >= 1
            /\ ctl_ui.outcome = ctl_call.outcome
            /\ ctl_ui.outcome = "return"
                 => /\ \A i \in DOMAIN ctl_ui.ret : ctl_ui.ret[i].is_visible
                    /\ ctl_ui.ret =
                         SelectSeq(forest_to_ui_elements(ctl_call.ret, FALSE),
                                   LAMBDA e : e.is_visible)
            /\ ctl_ui.outcome # "return" => "ret" \notin DOMAIN ctl_ui
    /\ ctl_a11y_method = "uiautomator"
         => /\ ctl_ui.dumps = 1
            /\ ctl_ui.outcome = "return"
            /\ Len(ctl_ui.ret) = Len(ctl_ui.xml)
            /\ \A i \in DOMAIN ctl_ui.ret : ctl_ui.ret[i].text = ctl_ui.xml[i]
            /\ ctl_call.fetched = <<>>
            /\ ctl_call.reconnects = 0
            /\ ctl_env = ctl_call.env0
    /\ ctl_a11y_method = "none"
         => /\ ctl_ui.dumps = 0
            /\ ctl_ui.outcome = "return"
            /\ ctl_ui.ret = <<>>
            /\ ctl_call.fetched = <<>>
            /\ ctl_call.reconnects = 0
            /\ ctl_env = ctl_call.env0

\* get_ui_elements with the forwarder app whose forest came after a
\* reconnection and holds an invisible element
C18_Witness ==
  /\ UiDone
  /\ ctl_a11y_method = "a11y_forwarder_app"
  /\ ctl_ui.outcome = "return"
  /\ ctl_call.reconnects = 1
  /\ Len(ctl_ui.ret) = 1
  /\ Len(ForestNodes(ctl_call.ret)) = 2

\* the last operation was a start_new_task
Started == last.op = "start_new_task"

\* C16: start_new_task(name, id) sets the session identifier to the
\* composition of the task id and the name and makes one new-agent request:
\* every attempt posts the same envelope, with that identifier and a device
\* descriptor that holds a device id and no host/port exactly when the mode
\* is Local, and a host/port pair and no device id otherwise; when it returns
\* the step counter is 0.
C16_StartRequest ==
  Started =>
    /\ current_task_name
         = "Task-" \o last.args.task_id \o "-" \o last.args.task_name
    /\ last.rpc.request_cnt >= 1
    /\ Len(last.rpc.posts) = last.rpc.request_cnt
    /\ \A i \in DOMAIN last.rpc.posts :
         LET post == last.rpc.posts[i]
             fields == DOMAIN post.params.device
         IN /\ post = last.rpc.posts[1]
            /\ post.method = "new-agent"
            /\ post.params.id = current_task_name
            /\ "deviceId" \in fields <=> last.args.device_type = "Local"
            /\ "deviceId" \in fields => fields \cap {"host", "port"} = {}
            /\ "deviceId" \notin fields => {"host", "port"} \subseteq fields
    /\ last.outcome = "return" => step_count = 0

\* a start in remote mode that returned, called with the counter at 1 or more
C16_Witness ==
  /\ Started
  /\ last.outcome = "return"
  /\ last.args.step_count >= 1
  /\ last.args.device_type = "Remote"
  /\ "host" \in DOMAIN last.rpc.posts[1].params.device
  /\ step_count = 0

\* MIDSCENE_BENCH_RPC_URL is unset or empty
UrlNotConfigured == env_rpc_url = None \/ env_rpc_url = ""

\* C17: with the request URL unset or empty, the construction of the driver
\* raises RuntimeError, no driver exists and no RPC request has been sent; a
\* driver that exists has a non-empty request URL.
C17_MissingUrlIsFatal ==
  /\ UrlNotConfigured
       => /\ ~DriverExists
          /\ last.rpc = NotCalled
          /\ last # NotConstructed
               => (last.op = "__init__" /\ last.outcome = "RuntimeError")
  /\ DriverExists => (rpc_url # Unset /\ rpc_url # None /\ rpc_url # "")

C17_Witness ==
  /\ env_rpc_url = ""
  /\ last.op = "__init__"
  /\ last.outcome = "RuntimeError"
  /\ rpc_url = ""

\* the session was created and its terminate-agent request has just been
\* answered: the session is Terminated
SessionTerminated ==
  /\ session_created
  /\ last.op = "update_task_status"
  /\ last.rpc.outcome = "return"

\* C19: Terminated is terminal: once terminate has ended the session, no
\* operation of the driver moves it back: the next operation is not a step
\* that gets a response for that session and reports completion (Succeeded)
\* or non-completion (Failed).
C19_TerminatedIsTerminal ==
  [][ SessionTerminated
        => ~( /\ last'.op = "step"
              /\ last'.outcome = "return"
              /\ last'.rpc.posts[1].params.id = current_task_name ) ]_vars

\* C20: every delivered response that carries a result code or an HTTP error
\* status has been logged verbatim by the time send returns or raises.
C20_EveryResponseLogged ==
  ( /\ Sent
    /\ tx_result.response.kind = "response"
    /\ \/ "json" \in DOMAIN tx_result.response
       \/ tx_result.response.status >= HttpErrorFrom )
  => \E i \in DOMAIN tx_result.console :
       /\ tx_result.console[i].msg = "RPC Response"
       /\ "json" \in DOMAIN tx_result.response
            => tx_result.console[i].result = tx_result.response.json

\* C21: with a clock that never goes back, the correlation identifiers of
\* the calls of one client are non-decreasing in call order and pairwise
\* distinct, every attempt of one call carries the identifier of that call,
\* and a call returns the body delivered whether or not its id is the id of
\* the request.
C21_CorrelationIds ==
  /\ \A i \in DOMAIN tx_log :
       /\ \A a \in DOMAIN tx_log[i].posts :
            tx_log[i].posts[a].id = tx_log[i].posts[1].id
       /\ tx_log[i].outcome = "return"
       /\ tx_log[i].result = tx_log[i].response.json
  /\ \A i, j \in DOMAIN tx_log :
       i < j => /\ tx_log[i].posts[1].id <= tx_log[j].posts[1].id
                /\ tx_log[i].posts[1].id # tx_log[j].posts[1].id

\* C22: a reconnection replaces the handle of the controller only when the
\* new controller has been built: a reconnection that fails leaves
\* self._env as it was, one that succeeds installs the newly built handle,
\* and no reconnection changes the a11y method of the controller.
C22_HandleReplacedAfterConstruction ==
  [][ (ctl_call.pc = "refresh" \/ ctl_call'.pc = "refreshed") =>
        /\ ctl_a11y_method' = ctl_a11y_method
        /\ ctl_call'.pc \in {"done", "retry", "refreshed"}
        /\ ctl_call'.pc = "done" => ctl_call'.outcome = "ReconnectError"
        /\ IF "outcome" \in DOMAIN ctl_call'
              /\ ctl_call'.outcome = "ReconnectError"
           THEN /\ ~Built(ctl_call'.refresh.how)
                /\ ctl_env' = ctl_env
                /\ ctl_env' = ctl_call'.env0
           ELSE /\ Built(ctl_call'.refresh.how)
                /\ ctl_env' = RefreshedEnv(ctl_made')
                /\ ctl_env'.id \notin {ctl_env.id, ctl_original_env.id} ]_vars

\* a reconnection has failed after the new environment was loaded, at the
\* reset of the new wrapper, and the controller holds the handle it had
C22_Witness ==
  /\ Reconnected
  /\ ForestDone
  /\ ctl_call.outcome = "ReconnectError"
  /\ ctl_call.refresh.how.fails = "reset"
  /\ ctl_made = 2
  /\ ctl_open = {1, 2}
  /\ ctl_env = ctl_call.env0
  /\ ctl_env.id = 1

\* the get_a11y_tree pulls made so far by the get_a11y_forest call in progress
ForestPulls ==
  LET f == ctl_call.fetched
  IN (IF Len(f) >= 1 THEN f[1].pulls ELSE 0)
       + (IF Len(f) >= 2 THEN f[2].pulls ELSE 0)

\* C23: every operation ends within a bounded number of iterations: a send
\* ends, with a response or an exception, after at most 3 posts; a
\* get_a11y_tree call ends after at most max_retries pulls; a
\* get_a11y_forest call makes at most 2 fetches, 2 * max_retries pulls and
\* one reconnection, whatever the transient failures are.
C23_BoundedIterations ==
  /\ Sent =>
       /\ tx_result.request_cnt <= 3
       /\ Len(tx_result.posts) = tx_result.request_cnt
       /\ tx_result.outcome
            \in {"return", "RuntimeError", "HTTPError", "JSONDecodeError"}
       /\ tx_result.outcome = "RuntimeError" => tx_result.request_cnt = 3
  /\ gt_result # NotCalled =>
       /\ gt_result.pulls <= gt_max_retries
       /\ gt_result.outcome
            \in {"return", "ValueError", "RuntimeError", "IndexError",
                 "RpcError"}
  /\ ctl_made >= 1 =>
       /\ Len(ctl_call.fetched) <= 2
       /\ \A i \in DOMAIN ctl_call.fetched :
            ctl_call.fetched[i].pulls <= DefaultMaxRetries
       /\ ForestPulls <= 2 * DefaultMaxRetries
       /\ ctl_call.reconnects <= 1
       /\ ctl_call.pc
            \in {"idle", "try", "refresh", "retry", "done", "refreshed"}
       /\ ctl_call.pc = "try" => ctl_call.fetched = <<>>
       /\ ctl_call.pc = "refresh" =>
            Len(ctl_call.fetched) = 1 /\ ctl_call.reconnects = 0
       /\ ctl_call.pc = "retry" =>
            Len(ctl_call.fetched) = 1 /\ ctl_call.reconnects = 1

\* a get_a11y_forest call that used everything it may: two fetches of
\* max_retries pulls each around one reconnection
C23_Witness ==
  /\ ctl_made >= 1
  /\ ForestDone
  /\ ctl_call.reconnects = 1
  /\ Len(ctl_call.fetched) = 2
  /\ ForestPulls = 2 * DefaultMaxRetries
  /\ ctl_call.outcome = "RuntimeError"

\* C24: the last failure reason belongs to one session: a terminate request
\* sent right after a new session has been created, before any step of that
\* session, carries an empty agentStepError.
C24_ReasonIsPerSession ==
  [][ ( /\ last.op = "start_new_task"
        /\ last.outcome = "return"
        /\ last'.op = "update_task_status" )
        => last'.rpc.posts[1].params.agentStepError = "" ]_vars

\* C25: the step counter counts the step calls since the last completed
\* start or reset: every step call adds exactly one, whether its request is
\* answered, ends with RuntimeError after three failed posts or with an HTTP
\* error; a start that returns and a reset that returns set it to 0; a start
\* that raises, a reset left by an exception of the base class's reset and a
\* terminate leave it as it is.
C25_StepCounter ==
  [][ /\ last'.op = "step" => step_count' = step_count + 1
      /\ last'.op = "reset" =>
           step_count' = IF last'.outcome = "return" THEN 0 ELSE step_count
      /\ last'.op = "start_new_task" =>
           step_count' = IF last'.outcome = "return" THEN 0 ELSE step_count
      /\ last'.op = "update_task_status" => step_count' = step_count ]_vars

\* a second step call whose request was never delivered is counted
C25_Witness ==
  /\ last.op = "step"
  /\ last.rpc.outcome = "RuntimeError"
  /\ last.rpc.request_cnt = MaxAttempts
  /\ step_count = 2
  /\ Len(run_log) = 1

\* the first fetch of the get_a11y_forest call found no A11yGrpcWrapper
FirstFetchMisconfigured ==
  /\ Len(ctl_call.fetched) >= 1
  /\ ctl_call.fetched[1].outcome = "ValueError"

\* C26: only a RuntimeError of the first fetch starts a reconnection: when
\* the first fetch of get_a11y_forest raises ValueError (no A11yGrpcWrapper
\* on the handle), the call ends there with that ValueError, after one fetch
\* and no pull, with no reconnection and with the handle it started with.
C26_MisconfiguredNotRetried ==
  /\ (ctl_made >= 1 /\ ctl_call.pc \in {"refresh", "retry"})
       => ctl_call.fetched[1].outcome = "RuntimeError"
  /\ (ctl_made >= 1 /\ FirstFetchMisconfigured)
       => /\ ForestDone
          /\ ctl_call.outcome = "ValueError"
          /\ Len(ctl_call.fetched) = 1
          /\ ctl_call.fetched[1].pulls = 0
          /\ ctl_call.reconnects = 0
          /\ ~Reconnected
          /\ ctl_env = ctl_call.env0

\* a get_a11y_forest call on a controller without the wrapper has ended
C26_Witness ==
  /\ ctl_made >= 1
  /\ FirstFetchMisconfigured
  /\ ForestDone
  /\ ctl_call.outcome = "ValueError"
  /\ ctl_a11y_method # "a11y_forwarder_app"
  /\ ctl_env = ctl_call.env0

\* C27: a controller whose a11y method is the forwarder app holds, in every
\* state after its construction and after every reconnection, a handle with
\* the A11yGrpcWrapper in its chain, so no fetch of its get_a11y_forest
\* calls, the one after a reconnection included, raises ValueError.
C27_WrapperAlwaysPresent ==
  (ctl_made >= 1 /\ ctl_a11y_method = "a11y_forwarder_app") =>
    /\ _has_wrapper(ctl_env.chain, "A11yGrpcWrapper").found
    /\ \A i \in DOMAIN ctl_call.fetched :
         ctl_call.fetched[i].outcome # "ValueError"

\* the fetch after a reconnection has run on the new handle
C27_Witness ==
  /\ ctl_made >= 2
  /\ ctl_a11y_method = "a11y_forwarder_app"
  /\ ForestDone
  /\ ctl_call.reconnects = 1
  /\ Len(ctl_call.fetched) = 2
  /\ ctl_call.fetched[2].on = ctl_env.id
  /\ ctl_env.id # ctl_call.env0.id
  /\ ctl_call.fetched[2].outcome = "return"

\* C28: update_task_status sends again each time it is called: after n calls
\* for one session, n terminate-agent requests for that session have been
\* sent, each with the status of its own call, and the status recorded for
\* the session is the status of the last call, whatever the earlier calls
\* recorded.
C28_TerminateResends ==
  /\ \A i \in DOMAIN tx_log :
       /\ tx_log[i].rpc # NotCalled
       /\ tx_log[i].rpc.request_cnt >= 1
       /\ \A a \in DOMAIN tx_log[i].rpc.posts :
            /\ tx_log[i].rpc.posts[a].method = "terminate-agent"
            /\ tx_log[i].rpc.posts[a].params.id = current_task_name
            /\ tx_log[i].rpc.posts[a].params.userTaskStatus
                 = StatusOf(tx_log[i].arg)
  /\ tx_log # <<>> =>
       /\ last.op = "update_task_status"
       /\ last.rpc = tx_log[Len(tx_log)].rpc
       /\ current_task_name \in DOMAIN task_status
       /\ task_status[current_task_name] = StatusOf(tx_log[Len(tx_log)].arg)

\* three calls for one session, with another status at each call than at the
\* call before: three requests delivered, the last status recorded
C28_Witness ==
  /\ Len(tx_log) = 3
  /\ tx_log[1].arg = NoArg
  /\ tx_log[2].arg = "Succeeded"
  /\ tx_log[3].arg = NoArg
  /\ \A i \in 1..3 : tx_log[i].rpc.outcome = "return"
  /\ task_status[current_task_name] = "Failed"

\* the pulls of the device that do something else than report the category
\* as not yet available
Decisive == { i \in 1..gt_max_retries : ~NotYet(gt_device.pulls[i]) }

\* the first of them
FirstDecisive == CHOOSE i \in Decisive : \A j \in Decisive : i <= j

\* C29: get_a11y_tree retries a pull only when the pulled extras hold no
\* 'accessibility_tree' key: the first pull that does anything else ends the
\* call at that pull.  A pull that raises ends it with that exception, an
\* empty buffer with IndexError, and a buffer of several forests with the
\* last forest of the buffer.
C29_OnlyMissingCategoryRetried ==
  (gt_result # NotCalled /\ GtHasCapability /\ Decisive # {}) =>
    LET o == gt_device.pulls[FirstDecisive]
    IN /\ gt_result.pulls = FirstDecisive
       /\ gt_result.sleeps = gt_result.enable_networking + FirstDecisive - 1
       /\ o.kind = "raise" =>
            gt_result.outcome = o.error /\ "forest" \notin DOMAIN gt_result
       /\ (o.kind = "extras" /\ o.extras.accessibility_tree = <<>>) =>
            gt_result.outcome = "IndexError" /\ "forest" \notin DOMAIN gt_result
       /\ Yields(o) =>
            /\ gt_result.outcome = "return"
            /\ gt_result.forest
                 = o.extras.accessibility_tree[Len(o.extras.accessibility_tree)]

\* the category is missing at the first pull and is there with an empty
\* buffer at the second, with a further pull left: IndexError at pull 2
C29_Witness ==
  /\ gt_result # NotCalled
  /\ GtHasCapability
  /\ gt_max_retries >= 3
  /\ NotYet(gt_device.pulls[1])
  /\ gt_device.pulls[2] = HasCategory(<<>>)
  /\ Yields(gt_device.pulls[3])
  /\ gt_result.outcome = "IndexError"
  /\ gt_result.pulls = 2

====
